---- MODULE Spec2Model ----
(***************************************************************************)
(* hyper-gomoku-cli: the live game engine (gomoku/game.py, board.py,       *)
(* skills.py) and the best-first action search (gomoku/ai/search.py).      *)
(*                                                                         *)
(* Cells are the strings of config.py written in ASCII: "." is EMPTY_CELL  *)
(* (U+00B7), "W" is WHITE_STONE (U+25CB), "B" is BLACK_STONE (U+25CF).     *)
(* Rows and columns are 0-based as in the source; a grid is a sequence of  *)
(* rows, so the cell (r, c) is grid[r + 1][c + 1].                         *)
(***************************************************************************)
EXTENDS Integers, Sequences, FiniteSets, TLC

(***************************************************************************)
(* Bounds of the model.                                                    *)
(***************************************************************************)
\* Board.size; config.BOARD_SIZE is 15, the model plays on a smaller board.
BoardSize == 6
\* The node-expansion budget; search._MAX_EXPANSIONS is 5000, scaled down.
MaxExpansions == 40
\* Largest depth argument handed to choose_action.
MaxDepth == 3
\* The random sources are in one of the states 0..MaxSeed.
MaxSeed == 1
\* How many live-engine operations are applied to a starting position.
MaxLiveSteps == 1
\* How many times choose_action is called on the same input.
MaxCalls == 2
\* How many stones are added to a sample grid before a function is applied.
MaxPlaced == 1
\* How many operations are applied in a row to a cooldown snapshot.
MaxSnapshotSteps == 2
\* How many operations are applied to a live game on its own.
MaxTurns == 5

(***************************************************************************)
(* config.py                                                               *)
(***************************************************************************)
WIN_SEQUENCE_LENGTH == 5
EMPTY_CELL == "."
BLACK_STONE == "B"
WHITE_STONE == "W"

None == "None"

(***************************************************************************)
(* game.py: Player                                                         *)
(***************************************************************************)
BLACK == "black"
WHITE == "white"
Player == <<BLACK, WHITE>>
Players == {BLACK, WHITE}

Stone(player) == IF player = BLACK THEN BLACK_STONE ELSE WHITE_STONE

Opponent(player) == IF player = BLACK THEN WHITE ELSE BLACK

\* search._PLAYER_INDEX, 1-based here.
PlayerIndex(player) == IF player = BLACK THEN 1 ELSE 2

(***************************************************************************)
(* skills.py                                                               *)
(***************************************************************************)
STONE_STORM == "StoneStorm"
STILL_WATERS == "StillWaters"
MIGHTY_CLEARING == "MightyClearing"
SEIZE_AND_MOVE == "SeizeAndMove"

\* ALL_SKILLS in insertion order (also Game.skill_registry and _skill_order).
ALL_SKILLS == <<STONE_STORM, STILL_WATERS, MIGHTY_CLEARING, SEIZE_AND_MOVE>>
SkillNames == {ALL_SKILLS[i] : i \in 1..Len(ALL_SKILLS)}

StoneStormCooldown == 5
StoneStormInitial == 5
StillWatersCooldown == 7
StillWatersInitial == 0
MightyClearingCooldown == 12
MightyClearingInitial == 7
SeizeAndMoveCooldown == 9
SeizeAndMoveInitial == 3

CooldownTurns(name) ==
    CASE name = STONE_STORM -> StoneStormCooldown
      [] name = STILL_WATERS -> StillWatersCooldown
      [] name = MIGHTY_CLEARING -> MightyClearingCooldown
      [] name = SEIZE_AND_MOVE -> SeizeAndMoveCooldown

InitialCooldown(name) ==
    CASE name = STONE_STORM -> StoneStormInitial
      [] name = STILL_WATERS -> StillWatersInitial
      [] name = MIGHTY_CLEARING -> MightyClearingInitial
      [] name = SEIZE_AND_MOVE -> SeizeAndMoveInitial

(***************************************************************************)
(* Generic helpers                                                         *)
(***************************************************************************)
Max(a, b) == IF a >= b THEN a ELSE b
Abs(a) == IF a < 0 THEN -a ELSE a

InSeq(x, s) == \E i \in 1..Len(s) : s[i] = x

RECURSIVE SumSeq(_)
SumSeq(s) == IF s = <<>> THEN 0 ELSE Head(s) + SumSeq(Tail(s))

\* random.Random.choice on a source in state r: the element depends on the
\* state of the source and on the population only.
Choice(r, s) == s[(r % Len(s)) + 1]

\* The state of a random source after one draw.
NextRng(r) == (r + 1) % (MaxSeed + 1)

Seeds == 0..MaxSeed

(***************************************************************************)
(* board.py: Board queries on a grid                                       *)
(***************************************************************************)
Size(grid) == Len(grid)

Rows == 0..(BoardSize - 1)

\* Row-major list of all coordinates of the board.
AllCoords == [i \in 1..(BoardSize * BoardSize) |->
                 <<(i - 1) \div BoardSize, (i - 1) % BoardSize>>]

Coords == Rows \X Rows

is_within_bounds(grid, coord) ==
    /\ 0 <= coord[1] /\ coord[1] < Size(grid)
    /\ 0 <= coord[2] /\ coord[2] < Size(grid)

\* Board.get: the cell, or None when out of bounds.
Get(grid, coord) ==
    IF is_within_bounds(grid, coord) THEN grid[coord[1] + 1][coord[2] + 1] ELSE None

is_empty(grid, coord) == Get(grid, coord) = EMPTY_CELL

is_full(grid) ==
    \A r \in 1..Len(grid) : \A c \in 1..Len(grid[r]) : grid[r][c] # EMPTY_CELL

\* Board.occupied_cells: row-major.
occupied_cells(grid) == SelectSeq(AllCoords, LAMBDA c : Get(grid, c) # EMPTY_CELL)

EmptyCells(grid) == SelectSeq(AllCoords, LAMBDA c : Get(grid, c) = EMPTY_CELL)

SetCell(grid, coord, value) ==
    [grid EXCEPT ![coord[1] + 1][coord[2] + 1] = value]

EmptyGrid == [r \in 1..BoardSize |-> [c \in 1..BoardSize |-> EMPTY_CELL]]

_DIRECTIONS == << <<1, 0>>, <<0, 1>>, <<1, 1>>, <<1, -1>> >>

\* Board._count_in_direction / search._count_in_direction.
RECURSIVE _count_in_direction(_, _, _, _)
_count_in_direction(grid, coord, stone, delta) ==
    LET next == <<coord[1] + delta[1], coord[2] + delta[2]>>
    IN IF Get(grid, next) = stone
         THEN 1 + _count_in_direction(grid, next, stone, delta)
         ELSE 0

_line_length(grid, coord, stone, delta) ==
    1 + _count_in_direction(grid, coord, stone, delta)
      + _count_in_direction(grid, coord, stone, <<-delta[1], -delta[2]>>)

\* Board._forms_winning_line / search._forms_winning_sequence.
_forms_winning_sequence(grid, coord, stone) ==
    \E d \in 1..Len(_DIRECTIONS) :
        _line_length(grid, coord, stone, _DIRECTIONS[d]) >= WIN_SEQUENCE_LENGTH

(***************************************************************************)
(* search.py: move generator                                               *)
(***************************************************************************)
\* range(-2, 3) x range(-2, 3) without (0, 0), in loop order.
\* The offsets to the eight adjacent cells only.
AdjacentOffsets ==
    SelectSeq([i \in 1..9 |-> <<((i - 1) \div 3) - 1, ((i - 1) % 3) - 1>>],
              LAMBDA d : ~(d[1] = 0 /\ d[2] = 0))

\* No offsets at all: the locality loop looks at no cell.
NoOffsets == <<>>

NeighbourOffsets ==
    SelectSeq([i \in 1..25 |-> <<((i - 1) \div 5) - 2, ((i - 1) % 5) - 2>>],
              LAMBDA d : ~(d[1] = 0 /\ d[2] = 0))

\* The locality loop of _candidate_moves: seen is the list yielded so far.
RECURSIVE LocalityScan(_, _, _)
LocalityScan(grid, occupied, seen) ==
    IF occupied = <<>> THEN seen
    ELSE LET o == Head(occupied)
             fresh == SelectSeq(NeighbourOffsets,
                         LAMBDA d : LET c == <<o[1] + d[1], o[2] + d[2]>>
                                    IN is_empty(grid, c) /\ ~InSeq(c, seen))
             yielded == [i \in 1..Len(fresh) |->
                            <<o[1] + fresh[i][1], o[2] + fresh[i][2]>>]
         IN LocalityScan(grid, Tail(occupied), seen \o yielded)

_candidate_moves(grid) ==
    LET occupied == occupied_cells(grid)
        center == Size(grid) \div 2
    IN IF occupied = <<>> THEN << <<center, center>> >>
       ELSE LET seen == LocalityScan(grid, occupied, <<>>)
            IN IF seen = <<>> THEN EmptyCells(grid) ELSE seen

(***************************************************************************)
(* search.py: placement on a grid                                          *)
(***************************************************************************)
\* _apply_move: ok is FALSE where the source raises ValueError.
_apply_move(grid, coord, stone) ==
    IF Get(grid, coord) # EMPTY_CELL
      THEN [ok |-> FALSE, grid |-> grid, win |-> FALSE]
      ELSE LET new_grid == SetCell(grid, coord, stone)
           IN [ok |-> TRUE, grid |-> new_grid,
               win |-> _forms_winning_sequence(new_grid, coord, stone)]

_is_draw(grid) == is_full(grid)

(***************************************************************************)
(* search.py: line evaluator                                               *)
(***************************************************************************)
\* The line score that gives a lone stone nothing.
SequenceScoreNoLoneStone(length, open_ends) ==
    IF length >= WIN_SEQUENCE_LENGTH THEN 1000000
    ELSE IF length = WIN_SEQUENCE_LENGTH - 1
      THEN (IF open_ends = 2 THEN 50000 ELSE 5000)
    ELSE IF length = WIN_SEQUENCE_LENGTH - 2
      THEN (IF open_ends = 2 THEN 2000 ELSE 400)
    ELSE IF length = WIN_SEQUENCE_LENGTH - 3
      THEN (IF open_ends = 2 THEN 200 ELSE 50)
    ELSE IF length = 2
      THEN (IF open_ends = 2 THEN 30 ELSE 10)
    ELSE 0

_sequence_score(length, open_ends) ==
    IF length >= WIN_SEQUENCE_LENGTH THEN 1000000
    ELSE IF length = WIN_SEQUENCE_LENGTH - 1
      THEN (IF open_ends = 2 THEN 50000 ELSE 5000)
    ELSE IF length = WIN_SEQUENCE_LENGTH - 2
      THEN (IF open_ends = 2 THEN 2000 ELSE 400)
    ELSE IF length = WIN_SEQUENCE_LENGTH - 3
      THEN (IF open_ends = 2 THEN 200 ELSE 50)
    ELSE IF length = 2
      THEN (IF open_ends = 2 THEN 30 ELSE 10)
    ELSE 1

\* The number of consecutive cells holding stone, from coord on along delta.
RECURSIVE RunFrom(_, _, _, _)
RunFrom(grid, coord, stone, delta) ==
    IF Get(grid, coord) = stone
      THEN 1 + RunFrom(grid, <<coord[1] + delta[1], coord[2] + delta[2]>>, stone, delta)
      ELSE 0

_sequence_metrics(grid, coord, stone, delta) ==
    LET fwd == RunFrom(grid, coord, stone, delta)
        back == <<-delta[1], -delta[2]>>
        bwd == RunFrom(grid, <<coord[1] + back[1], coord[2] + back[2]>>, stone, back)
        fwd_end == <<coord[1] + fwd * delta[1], coord[2] + fwd * delta[2]>>
        bwd_end == <<coord[1] + (bwd + 1) * back[1], coord[2] + (bwd + 1) * back[2]>>
    IN [length |-> fwd + bwd,
        open_ends |-> (IF Get(grid, fwd_end) = EMPTY_CELL THEN 1 ELSE 0)
                    + (IF Get(grid, bwd_end) = EMPTY_CELL THEN 1 ELSE 0)]

\* The contribution that scores a line at each of its stones.
RunScoreEveryStone(grid, coord, stone, delta) ==
    IF Get(grid, coord) # stone THEN 0
    ELSE LET m == _sequence_metrics(grid, coord, stone, delta)
         IN _sequence_score(m.length, m.open_ends)

\* The contribution of the cell coord along direction delta to a player's score.
RunScore(grid, coord, stone, delta) ==
    IF Get(grid, coord) # stone THEN 0
    ELSE IF Get(grid, <<coord[1] - delta[1], coord[2] - delta[2]>>) = stone THEN 0
    ELSE LET m == _sequence_metrics(grid, coord, stone, delta)
         IN _sequence_score(m.length, m.open_ends)

_score_for_player(grid, player) ==
    LET stone == Stone(player)
        cells == [i \in 1..(Size(grid) * Size(grid)) |->
                     <<(i - 1) \div Size(grid), (i - 1) % Size(grid)>>]
    IN SumSeq([i \in 1..Len(cells) |->
                 IF Get(grid, cells[i]) # stone THEN 0
                 ELSE SumSeq([d \in 1..Len(_DIRECTIONS) |->
                                 RunScore(grid, cells[i], stone, _DIRECTIONS[d])])])

\* The evaluation that counts the lines of the perspective only.
OwnScoreOnly(grid, perspective) == _score_for_player(grid, perspective)

_static_evaluation(grid, perspective) ==
    _score_for_player(grid, perspective) - _score_for_player(grid, Opponent(perspective))

_priority(g_cost, evaluation, player_to_move, root_player) ==
    LET sign == IF player_to_move = root_player THEN 1 ELSE -1
    IN g_cost - sign * evaluation

(***************************************************************************)
(* game.py: the Game value.  A record with the fields of the dataclass     *)
(* that the rules read or write; the texts shown to the player (messages,  *)
(* log, overlay, commentary, aliases) are left out.  An Optional field is  *)
(* None, or for a compound value the empty tuple.                          *)
(***************************************************************************)
NoCoord == <<>>
Nothing == <<>>

\* Game.new() / Game.__post_init__ on a board of BoardSize.
NewGame ==
    [grid |-> EmptyGrid,
     history |-> <<>>,
     current_player |-> BLACK,
     cursor |-> <<BoardSize \div 2, BoardSize \div 2>>,
     last_move |-> Nothing,
     last_skill |-> Nothing,
     winner |-> None,
     draw |-> FALSE,
     skip_next_player |-> None,
     skipped_last_player |-> None,
     skill_cooldowns |-> [p \in Players |-> [n \in SkillNames |-> InitialCooldown(n)]]]

is_finished(game) == game.winner # None \/ game.draw

\* Game.occupied_by_player: row-major.
occupied_by_player(game, player) ==
    SelectSeq(AllCoords, LAMBDA c : Get(game.grid, c) = Stone(player))

\* Game.set_cursor; ok is FALSE where the source raises ValueError.
set_cursor(game, coord) ==
    IF is_within_bounds(game.grid, coord)
      THEN [ok |-> TRUE, game |-> [game EXCEPT !.cursor = coord]]
      ELSE [ok |-> FALSE, game |-> game]

\* A beginning turn that leaves the cooldowns as they are.
TickSkipped(game, player) == game

\* Game._tick_cooldowns
_tick_cooldowns(game, player) ==
    [game EXCEPT !.skill_cooldowns[player] =
        [n \in SkillNames |-> IF @[n] > 0 THEN @[n] - 1 ELSE @[n]]]

\* The move to player that takes no notice of a scheduled skip.
MoveWithoutSkip(game, player) ==
    [_tick_cooldowns([game EXCEPT !.current_player = player], player) EXCEPT
        !.skipped_last_player = None]

\* Game._move_to_player: the loop runs once, or twice when player is skipped.
_move_to_player(game, player) ==
    LET first == _tick_cooldowns([game EXCEPT !.current_player = player], player)
    IN IF first.skip_next_player = player
         THEN _tick_cooldowns([first EXCEPT !.skip_next_player = None,
                                            !.skipped_last_player = player,
                                            !.current_player = Opponent(player)],
                              Opponent(player))
         ELSE [first EXCEPT !.skipped_last_player = None]

_advance_after_action(game) == _move_to_player(game, Opponent(game.current_player))

\* The end of place_stone and use_skill: the turn passes on unless the game
\* is over.
AdvanceUnlessFinished(game) ==
    IF is_finished(game) THEN game ELSE _advance_after_action(game)

\* Board.remove_stone on the game's board: the cell is emptied and the last
\* history record of the coordinate is dropped.
RemoveFromHistory(history, coord) ==
    LET hits == {i \in 1..Len(history) : history[i][2] = coord}
    IN IF hits = {} THEN history
       ELSE LET last == CHOOSE i \in hits : \A j \in hits : j <= i
            IN SubSeq(history, 1, last - 1) \o SubSeq(history, last + 1, Len(history))

remove_stone(game, coord) ==
    [game EXCEPT !.grid = SetCell(@, coord, EMPTY_CELL),
                 !.history = RemoveFromHistory(@, coord)]

\* Board.place_stone on the game's board (the caller has checked the cell).
board_place_stone(game, coord, stone) ==
    [game EXCEPT !.grid = SetCell(@, coord, stone),
                 !.history = Append(@, <<stone, coord>>)]

\* Game.place_stone after the stone is on the board (lines 115-138): placed is
\* the game with the stone on it, produced_win what Board.place_stone returned.
AfterPlacement(placed, coord, produced_win) ==
    [placed EXCEPT
        !.winner = IF produced_win THEN placed.current_player ELSE @,
        !.draw = IF ~produced_win /\ is_full(placed.grid) THEN TRUE ELSE @,
        !.last_move = <<[coordinate |-> coord,
                         player |-> placed.current_player,
                         stone |-> Stone(placed.current_player),
                         produced_win |-> produced_win,
                         produced_draw |-> ~produced_win /\ is_full(placed.grid)]>>,
        !.last_skill = Nothing]

\* Game.place_stone; ok is FALSE where the source raises ValueError.
place_stone(game, coord) ==
    IF is_finished(game) \/ ~is_within_bounds(game.grid, coord)
         \/ ~is_empty(game.grid, coord)
      THEN [ok |-> FALSE, game |-> game]
      ELSE [ok |-> TRUE,
            game |-> AdvanceUnlessFinished(
                         AfterPlacement(
                             board_place_stone(game, coord, Stone(game.current_player)),
                             coord,
                             _forms_winning_sequence(
                                 SetCell(game.grid, coord, Stone(game.current_player)),
                                 coord, Stone(game.current_player))))]

ClearLastMoveAt(game, coord) ==
    IF game.last_move # Nothing /\ game.last_move[1].coordinate = coord
      THEN [game EXCEPT !.last_move = Nothing]
      ELSE game

\* StoneStormSkill.apply once the target is chosen (lines 59-71).
Removed(game, target) ==
    [ClearLastMoveAt(remove_stone(game, target), target) EXCEPT
        !.last_skill = <<[skill_name |-> STONE_STORM, from |-> NoCoord,
                          to |-> NoCoord, removed |-> target]>>]

\* StoneStormSkill.apply with the random source in state r.
StoneStormApply(game, player, r) ==
    LET opponent_coords == occupied_by_player(game, Opponent(player))
    IN IF opponent_coords = <<>> THEN [ok |-> FALSE, game |-> game]
       ELSE [ok |-> TRUE,
             game |-> Removed(game,
                              IF Get(game.grid, game.cursor) = Stone(Opponent(player))
                                THEN game.cursor ELSE Choice(r, opponent_coords))]

\* StillWatersSkill.apply (Game.schedule_skip_for the opponent).
StillWatersApply(game, player, r) ==
    [ok |-> TRUE,
     game |-> [game EXCEPT !.skip_next_player = Opponent(player),
                           !.last_skill =
                               <<[skill_name |-> STILL_WATERS, from |-> NoCoord,
                                  to |-> NoCoord, removed |-> NoCoord]>>]]

\* MightyClearingSkill.apply
MightyClearingApply(game, player, r) ==
    [ok |-> TRUE,
     game |-> [game EXCEPT !.grid = EmptyGrid, !.history = <<>>,
                           !.last_move = Nothing, !.winner = None, !.draw = FALSE,
                           !.last_skill =
                               <<[skill_name |-> MIGHTY_CLEARING, from |-> NoCoord,
                                  to |-> NoCoord, removed |-> NoCoord]>>]]

\* SeizeAndMoveSkill._find_target: the empty cells other than source, row-major.
SeizeTargets(game, source) ==
    SelectSeq(AllCoords, LAMBDA c : c # source /\ is_empty(game.grid, c))

\* The relocation that does not look for a line through the target.
RelocatedUnnoticed(moved, player, source, target) ==
    [moved EXCEPT
        !.last_skill = <<[skill_name |-> SEIZE_AND_MOVE, from |-> source,
                          to |-> target, removed |-> NoCoord]>>]

\* SeizeAndMoveSkill.apply after the stone is set down on target (lines
\* 144-160): a five of the relocated stone ends the game for its owner.
Relocated(moved, player, source, target) ==
    [moved EXCEPT
        !.winner = IF _forms_winning_sequence(moved.grid, target, Get(moved.grid, target))
                     THEN Opponent(player) ELSE @,
        !.draw = IF _forms_winning_sequence(moved.grid, target, Get(moved.grid, target))
                   THEN FALSE ELSE @,
        !.last_move = IF _forms_winning_sequence(moved.grid, target, Get(moved.grid, target))
                        THEN Nothing ELSE @,
        !.last_skill = <<[skill_name |-> SEIZE_AND_MOVE, from |-> source,
                          to |-> target, removed |-> NoCoord]>>]

\* SeizeAndMoveSkill.apply with the random source in state r.
SeizeAndMoveApply(game, player, r) ==
    LET source == game.cursor
        empties == SeizeTargets(game, source)
    IN IF Get(game.grid, source) # Stone(Opponent(player)) \/ empties = <<>>
         THEN [ok |-> FALSE, game |-> game]
         ELSE [ok |-> TRUE,
               game |-> Relocated(
                            board_place_stone(
                                ClearLastMoveAt(remove_stone(game, source), source),
                                Choice(r, empties), Get(game.grid, source)),
                            player, source, Choice(r, empties))]

\* Skill.apply, dispatched on the registry entry.
SkillApply(name, game, player, r) ==
    CASE name = STONE_STORM -> StoneStormApply(game, player, r)
      [] name = STILL_WATERS -> StillWatersApply(game, player, r)
      [] name = MIGHTY_CLEARING -> MightyClearingApply(game, player, r)
      [] name = SEIZE_AND_MOVE -> SeizeAndMoveApply(game, player, r)

\* The end of use_skill that leaves the skill's cooldown as it was.
AfterApplyNoCooldown(game, skill_name, applied) ==
    IF ~applied.ok THEN [ok |-> FALSE, game |-> game]
    ELSE [ok |-> TRUE, game |-> AdvanceUnlessFinished(applied.game)]

\* Game.use_skill after skill.apply (lines 160-169): applied is the outcome
\* of apply on game.
AfterApply(game, skill_name, applied) ==
    IF ~applied.ok THEN [ok |-> FALSE, game |-> game]
    ELSE [ok |-> TRUE,
          game |-> AdvanceUnlessFinished(
                       [applied.game EXCEPT
                           !.skill_cooldowns[game.current_player][skill_name] =
                               CooldownTurns(skill_name)])]

\* The activation that does not look at the remaining cooldown.
UseSkillWhileCooling(game, skill_name, r) ==
    IF is_finished(game) \/ skill_name \notin SkillNames
      THEN [ok |-> FALSE, game |-> game]
    ELSE AfterApply(game, skill_name, SkillApply(skill_name, game, game.current_player, r))

\* Game.use_skill with self.rng in state r; ok is FALSE where it raises ValueError.
use_skill(game, skill_name, r) ==
    IF is_finished(game) \/ skill_name \notin SkillNames
      THEN [ok |-> FALSE, game |-> game]
    ELSE IF game.skill_cooldowns[game.current_player][skill_name] > 0
      THEN [ok |-> FALSE, game |-> game]
    ELSE AfterApply(game, skill_name, SkillApply(skill_name, game, game.current_player, r))

\* Game.reset: every field goes back to its value in a new game.
reset(game) == NewGame

(***************************************************************************)
(* search.py: _CooldownState                                               *)
(***************************************************************************)
\* _CooldownState.from_game
from_game(game, skill_names) ==
    [skill_names |-> skill_names,
     values |-> [p \in 1..Len(Player) |->
                    [k \in 1..Len(skill_names) |->
                        game.skill_cooldowns[Player[p]][skill_names[k]]]],
     round_number |-> Len(game.history)]

for_player(state, player) == state.values[PlayerIndex(player)]

\* The advance that takes 1 off the opponent's entries whatever they are.
AdvanceWithoutFloor(state, player) ==
    [state EXCEPT
        !.values[PlayerIndex(Opponent(player))] = [k \in 1..Len(@) |-> @[k] - 1],
        !.round_number = @ + 1]

advance_after_move(state, player) ==
    LET opponent_index == PlayerIndex(Opponent(player))
    IN [state EXCEPT
           !.values[opponent_index] =
               [k \in 1..Len(@) |-> IF @[k] > 0 THEN @[k] - 1 ELSE 0],
           !.round_number = @ + 1]

\* The trigger that also counts as a round.
TriggeredAsRound(state, player, skill_name, cooldown_turns) ==
    IF ~InSeq(skill_name, state.skill_names) THEN [ok |-> FALSE, state |-> state]
    ELSE LET skill_index == CHOOSE k \in 1..Len(state.skill_names) :
                                state.skill_names[k] = skill_name
         IN [ok |-> TRUE,
             state |-> [state EXCEPT !.values[PlayerIndex(player)][skill_index] =
                                         cooldown_turns,
                                     !.round_number = @ + 1]]

\* ok is FALSE where the source raises KeyError.
with_skill_triggered(state, player, skill_name, cooldown_turns) ==
    IF ~InSeq(skill_name, state.skill_names) THEN [ok |-> FALSE, state |-> state]
    ELSE LET skill_index == CHOOSE k \in 1..Len(state.skill_names) :
                                /\ state.skill_names[k] = skill_name
                                /\ \A j \in 1..(k - 1) : state.skill_names[j] # skill_name
         IN [ok |-> TRUE,
             state |-> [state EXCEPT !.values[PlayerIndex(player)][skill_index] =
                                         cooldown_turns]]

(***************************************************************************)
(* search.py: SearchAction and _SearchNode                                 *)
(***************************************************************************)
PlaceAction(coord) == [move |-> coord, skill |-> None, skill_target |-> NoCoord]

SkillAction(name, target) == [move |-> NoCoord, skill |-> name, skill_target |-> target]

\* The order of the cell strings (by code point: U+00B7 < U+25CB < U+25CF).
CellOrd(cell) ==
    CASE cell = EMPTY_CELL -> 0
      [] cell = WHITE_STONE -> 1
      [] cell = BLACK_STONE -> 2

\* Tuple comparison of two different grids of the same size.
GridLess(a, b) ==
    LET diff == {i \in 1..Len(AllCoords) : Get(a, AllCoords[i]) # Get(b, AllCoords[i])}
        first == CHOOSE i \in diff : \A j \in diff : i <= j
    IN CellOrd(Get(a, AllCoords[first])) < CellOrd(Get(b, AllCoords[first]))

\* _SearchNode.__lt__ (dataclass(order=True); first_action is not compared):
\* "lt", "ge", or "TypeError" where the first differing fields are Player
\* members or cooldown snapshots, which define no order.
NodeCmp(a, b) ==
    IF a.priority # b.priority THEN (IF a.priority < b.priority THEN "lt" ELSE "ge")
    ELSE IF a.g_cost # b.g_cost THEN (IF a.g_cost < b.g_cost THEN "lt" ELSE "ge")
    ELSE IF a.grid # b.grid THEN (IF GridLess(a.grid, b.grid) THEN "lt" ELSE "ge")
    ELSE IF a.player_to_move # b.player_to_move THEN "TypeError"
    ELSE IF a.evaluation # b.evaluation
      THEN (IF a.evaluation < b.evaluation THEN "lt" ELSE "ge")
    ELSE IF a.is_terminal # b.is_terminal THEN (IF ~a.is_terminal THEN "lt" ELSE "ge")
    ELSE IF a.cooldown_state # b.cooldown_state THEN "TypeError"
    ELSE "ge"

(***************************************************************************)
(* heapq on a list of nodes (positions are 0-based as in heapq; the item   *)
(* at position p is heap[p + 1]).  ok is FALSE when a comparison raised.   *)
(***************************************************************************)
\* One step of heapq._siftdown, given the outcome c of newitem < parent.
RECURSIVE _siftdown(_, _, _, _)
SiftedDown(heap, startpos, pos, newitem, c) ==
    IF c = "TypeError" THEN [ok |-> FALSE, heap |-> heap]
    ELSE IF c = "lt"
      THEN _siftdown([heap EXCEPT ![pos + 1] = heap[((pos - 1) \div 2) + 1]],
                     startpos, (pos - 1) \div 2, newitem)
    ELSE [ok |-> TRUE, heap |-> [heap EXCEPT ![pos + 1] = newitem]]

_siftdown(heap, startpos, pos, newitem) ==
    IF pos > startpos
      THEN SiftedDown(heap, startpos, pos, newitem,
                      NodeCmp(newitem, heap[((pos - 1) \div 2) + 1]))
      ELSE [ok |-> TRUE, heap |-> [heap EXCEPT ![pos + 1] = newitem]]

\* One step of heapq._siftup, given the outcome c of left child < right child
\* ("lt" when there is no right child).
RECURSIVE _siftup(_, _, _, _)
SiftedUp(heap, startpos, pos, newitem, c) ==
    IF c = "TypeError" THEN [ok |-> FALSE, heap |-> heap]
    ELSE IF c = "lt"
      THEN _siftup([heap EXCEPT ![pos + 1] = heap[2 * pos + 2]],
                   startpos, 2 * pos + 1, newitem)
    ELSE _siftup([heap EXCEPT ![pos + 1] = heap[2 * pos + 3]],
                 startpos, 2 * pos + 2, newitem)

_siftup(heap, startpos, pos, newitem) ==
    IF 2 * pos + 1 < Len(heap)
      THEN SiftedUp(heap, startpos, pos, newitem,
                    IF 2 * pos + 2 < Len(heap)
                      THEN NodeCmp(heap[2 * pos + 2], heap[2 * pos + 3])
                      ELSE "lt")
      ELSE _siftdown(heap, startpos, pos, newitem)

heappush(heap, item) == _siftdown(Append(heap, item), 0, Len(heap), item)

\* The return of heappop: the old root, and the heap with lastelt sifted in.
Popped(returnitem, sifted) ==
    [ok |-> sifted.ok, item |-> returnitem, heap |-> sifted.heap]

\* heappop of a non-empty heap: the item returned and the heap left.
heappop(heap) ==
    IF Len(heap) = 1 THEN [ok |-> TRUE, item |-> heap[1], heap |-> <<>>]
    ELSE Popped(heap[1],
                _siftup(SubSeq(heap, 1, Len(heap) - 1), 0, 0, heap[Len(heap)]))

\* heappush of every item of a list, in order; pushed is the heap so far.
RECURSIVE PushEach(_, _)
PushEach(pushed, items) ==
    IF items = <<>> \/ ~pushed.ok THEN pushed
    ELSE PushEach(heappush(pushed.heap, Head(items)), Tail(items))

PushAll(heap, items) == PushEach([ok |-> TRUE, heap |-> heap], items)

(***************************************************************************)
(* search.py: skill simulation at the root                                 *)
(***************************************************************************)
_MAX_STONESTORM_BRANCHES == 3

_grid_from_board(game) == game.grid

_skill_order(game) == ALL_SKILLS

\* _ready_skill_names, in registry order.
_ready_skill_names(game) ==
    SelectSeq(ALL_SKILLS,
              LAMBDA name : game.skill_cooldowns[game.current_player][name] = 0)

\* The simulations drawing from an rng in any state rather than from a copy
\* of the caller's.
UnseededRng(r) == Seeds

\* The states the random source of a simulated game can be in: it is a
\* copy.deepcopy of the caller's source, so the caller's state.
SimulatedRng(r) == {r}

\* The simulation that uses the skill on the game handed in instead of on a
\* copy of it.
SimulatedInPlace(used, cooldown_state, live) ==
    [ok |-> used.ok,
     game |-> used.game,
     state |-> from_game(used.game, cooldown_state.skill_names),
     live |-> used.game]

\* The return of _simulate_skill_effect (lines 366-367): used is the outcome
\* of use_skill on the copy, live the game that was handed in.
Simulated(used, cooldown_state, live) ==
    [ok |-> used.ok,
     game |-> used.game,
     state |-> from_game(used.game, cooldown_state.skill_names),
     live |-> live]

\* Lines 363-365 on the copy: the cursor is set when a target is given, then
\* the skill is used.
UseOnCopy(simulated_game, skill_name, sr, skill_target) ==
    IF skill_target = NoCoord THEN use_skill(simulated_game, skill_name, sr)
    ELSE IF ~is_within_bounds(simulated_game.grid, skill_target)
      THEN [ok |-> FALSE, game |-> simulated_game]
    ELSE use_skill([simulated_game EXCEPT !.cursor = skill_target], skill_name, sr)

\* _simulate_skill_effect with the simulated game's source in state sr.
\* ok is FALSE where it raises ValueError; game and state are the returned
\* pair; live is the game that was handed in, as the call leaves it (the
\* simulation runs on a copy.deepcopy of it).
_simulate_skill_effect(game, cooldown_state, skill_name, sr, skill_target) ==
    Simulated(UseOnCopy(game, skill_name, sr, skill_target), cooldown_state, game)

\* list.sort(key=evaluation, reverse=True): stable, descending.
InsertDesc(sorted, x) ==
    LET k == Cardinality({i \in 1..Len(sorted) : sorted[i].evaluation >= x.evaluation})
    IN SubSeq(sorted, 1, k) \o <<x>> \o SubSeq(sorted, k + 1, Len(sorted))

\* The list left in the order it was scanned.
Unsorted(scored) == scored

RECURSIVE SortDesc(_)
SortDesc(scored) ==
    IF scored = <<>> THEN <<>>
    ELSE InsertDesc(SortDesc(SubSeq(scored, 1, Len(scored) - 1)), scored[Len(scored)])

\* One pass of the loop of _stone_storm_simulations (lines 306-321) for the
\* first of the targets left, given the outcome sim of its simulation.
AfterStorm(acc, player, sim) ==
    IF ~sim.ok THEN [acc EXCEPT !.live = sim.live, !.targets = Tail(@)]
    ELSE [acc EXCEPT
             !.live = sim.live,
             !.targets = Tail(@),
             !.scored = Append(@, [evaluation |->
                                       _static_evaluation(_grid_from_board(sim.game), player),
                                   target |-> Head(acc.targets),
                                   game |-> sim.game,
                                   state |-> sim.state])]

\* The loop of _stone_storm_simulations over ordered_targets: acc holds the
\* game handed in, the targets left and the list scored.
RECURSIVE StoneStormScan(_, _, _, _)
StoneStormScan(acc, cooldown_state, sr, player) ==
    IF acc.targets = <<>> THEN acc
    ELSE StoneStormScan(
             AfterStorm(acc, player,
                        _simulate_skill_effect(acc.live, cooldown_state, STONE_STORM, sr,
                                               Head(acc.targets))),
             cooldown_state, sr, player)

\* scored[:_MAX_STONESTORM_BRANCHES]
Limited(sorted) ==
    SubSeq(sorted, 1, IF Len(sorted) < _MAX_STONESTORM_BRANCHES
                        THEN Len(sorted) ELSE _MAX_STONESTORM_BRANCHES)

\* Lines 325-334: one result per retained simulation.
StormResults(limited) ==
    [i \in 1..Len(limited) |->
        [action |-> SkillAction(STONE_STORM, limited[i].target),
         game |-> limited[i].game,
         state |-> limited[i].state]]

\* Lines 323-334 on the scan's outcome.
StormOutcome(scan) ==
    [live |-> scan.live, results |-> StormResults(Limited(SortDesc(scan.scored)))]

\* Lines 296-303: the cursor's stone first, when it is the opponent's.
OrderedTargets(game, opponent_coords) ==
    IF Get(game.grid, game.cursor) = Stone(Opponent(game.current_player))
      THEN <<game.cursor>> \o SelectSeq(opponent_coords, LAMBDA c : c # game.cursor)
      ELSE opponent_coords

_stone_storm_simulations(game, cooldown_state, sr) ==
    IF occupied_by_player(game, Opponent(game.current_player)) = <<>>
      THEN [live |-> game, results |-> <<>>]
      ELSE StormOutcome(
               StoneStormScan(
                   [live |-> game,
                    targets |-> OrderedTargets(game,
                                    occupied_by_player(game, Opponent(game.current_player))),
                    scored |-> <<>>],
                   cooldown_state, sr, game.current_player))

\* The root loop that passes over no skill.
NothingSkippedAtRoot(skill_name) == FALSE

\* Which registry names the root loop hands to a simulation.
SkippedAtRoot(skill_name) == skill_name = MIGHTY_CLEARING

\* Lines 263-271: the target recorded for a simulated skill.
SkillTarget(skill_name, simulated_game) ==
    IF skill_name = SEIZE_AND_MOVE /\ simulated_game.last_skill # Nothing
      THEN simulated_game.last_skill[1].from
      ELSE NoCoord

\* The root loop that records every successful simulation under the last
\* name of the registry.
AfterSimulationMislabelled(acc, skill_name, sim) ==
    IF ~sim.ok THEN [acc EXCEPT !.live = sim.live]
    ELSE [acc EXCEPT
             !.live = sim.live,
             !.results = Append(@, [action |-> SkillAction(SEIZE_AND_MOVE,
                                                   SkillTarget(skill_name, sim.game)),
                                    game |-> sim.game,
                                    state |-> sim.state])]

\* The root loop without the try/except: a failing simulation ends the call.
AfterSimulationRaising(acc, skill_name, sim) ==
    IF ~sim.ok THEN [acc EXCEPT !.live = sim.live, !.raised = TRUE]
    ELSE [acc EXCEPT
             !.live = sim.live,
             !.results = Append(@, [action |-> SkillAction(skill_name,
                                                   SkillTarget(skill_name, sim.game)),
                                    game |-> sim.game,
                                    state |-> sim.state])]

\* What the root loop does with the outcome of one simulation: a ValueError
\* is caught and the skill is passed over.
AfterSimulation(acc, skill_name, sim) ==
    IF ~sim.ok THEN [acc EXCEPT !.live = sim.live]
    ELSE [acc EXCEPT
             !.live = sim.live,
             !.results = Append(@, [action |-> SkillAction(skill_name,
                                                   SkillTarget(skill_name, sim.game)),
                                    game |-> sim.game,
                                    state |-> sim.state])]

\* Lines 247-251: the Stone Storm results are appended.
AfterStormSimulations(acc, storm) ==
    [acc EXCEPT !.live = storm.live, !.results = @ \o storm.results]

\* The loop of _root_skill_simulations over the ready names.  raised is TRUE
\* when an exception left the loop.
RECURSIVE RootSkillScan(_, _, _, _)
RootSkillScan(acc, cooldown_state, sr, names) ==
    IF names = <<>> \/ acc.raised THEN acc
    ELSE RootSkillScan(
             IF SkippedAtRoot(Head(names)) THEN acc
             ELSE IF Head(names) = STONE_STORM
               THEN AfterStormSimulations(acc,
                        _stone_storm_simulations(acc.live, cooldown_state, sr))
             ELSE AfterSimulation(acc, Head(names),
                      _simulate_skill_effect(acc.live, cooldown_state, Head(names), sr,
                                             NoCoord)),
             cooldown_state, sr, Tail(names))

_root_skill_simulations(game, cooldown_state, sr) ==
    RootSkillScan([live |-> game, results |-> <<>>, raised |-> FALSE],
                  cooldown_state, sr, _ready_skill_names(game))

(***************************************************************************)
(* search.py: choose_action                                                *)
(***************************************************************************)
NegInf == <<>>

\* math.isclose(a, b, rel_tol=1e-9, abs_tol=1e-6) on integral scores.
IsClose(a, b) ==
    \/ a = b
    \/ Abs(a - b) <= Max(Abs(a), Abs(b)) \div 1000000000

\* record_candidate: best is the pair of best_score and best_actions.
record_candidate(best, score, action) ==
    IF best.score = NegInf \/ score > best.score[1]
      THEN [score |-> <<score>>, actions |-> <<action>>]
    ELSE IF IsClose(score, best.score[1])
      THEN [best EXCEPT !.actions = Append(@, action)]
    ELSE best

\* _SearchNode(...) with its priority computed by _priority for root_player.
SearchNode(g_cost, grid, player_to_move, first_action, evaluation, is_terminal, cooldown_state, root_player) ==
    [priority |-> _priority(g_cost, evaluation, player_to_move, root_player),
     g_cost |-> g_cost,
     grid |-> grid,
     player_to_move |-> player_to_move,
     first_action |-> first_action,
     evaluation |-> evaluation,
     is_terminal |-> is_terminal,
     cooldown_state |-> cooldown_state]

\* The node for the grid a placement produced (applied is what _apply_move
\* returned), to be moved on next by player_to_move.
PlacedNode(applied, g_cost, player_to_move, first_action, cooldown_state, root_player) ==
    SearchNode(g_cost, applied.grid, player_to_move, first_action,
               _static_evaluation(applied.grid, root_player),
               applied.win \/ _is_draw(applied.grid),
               cooldown_state, root_player)

\* The node built for one root placement (lines 143-157).
RootPlacementNode(grid, current_player, root_cooldowns, move) ==
    PlacedNode(_apply_move(grid, move, Stone(current_player)), 1,
               Opponent(current_player), PlaceAction(move),
               advance_after_move(root_cooldowns, current_player), current_player)

\* The node built for one root skill child (lines 163-176).
RootSkillNode(child, current_player) ==
    SearchNode(1, _grid_from_board(child.game), child.game.current_player, child.action,
               _static_evaluation(_grid_from_board(child.game), current_player),
               is_finished(child.game), child.state, current_player)

\* The child node that records the placement made below the root in place of
\* the root's action.
ChildNodeOwnAction(node, current_player, move) ==
    PlacedNode(_apply_move(node.grid, move, Stone(node.player_to_move)),
               node.g_cost + 1, Opponent(node.player_to_move), PlaceAction(move),
               advance_after_move(node.cooldown_state, node.player_to_move),
               current_player)

\* The child node that leaves the turn with the player who just placed.
ChildNodeSameMover(node, current_player, move) ==
    PlacedNode(_apply_move(node.grid, move, Stone(node.player_to_move)),
               node.g_cost + 1, node.player_to_move, node.first_action,
               advance_after_move(node.cooldown_state, node.player_to_move),
               current_player)

\* The node built for one placement below the root (lines 203-221).
ChildNode(node, current_player, move) ==
    PlacedNode(_apply_move(node.grid, move, Stone(node.player_to_move)),
               node.g_cost + 1, Opponent(node.player_to_move), node.first_action,
               advance_after_move(node.cooldown_state, node.player_to_move),
               current_player)

\* One call of record_candidate, with the node it was made for.
Recording(node, score) ==
    [action |-> node.first_action, score |-> score, g_cost |-> node.g_cost,
     evaluation |-> node.evaluation, is_terminal |-> node.is_terminal,
     grid |-> node.grid]

\* The calls of record_candidate made while the root nodes are pushed
\* (lines 159-160 and 178-179): one per terminal node, with its evaluation.
RootRecordings(nodes) ==
    LET terminal == SelectSeq(nodes, LAMBDA n : n.is_terminal)
    IN [i \in 1..Len(terminal) |-> Recording(terminal[i], terminal[i].evaluation)]

\* record_candidate for the terminal nodes of a list, in order.
RECURSIVE RecordTerminals(_, _)
RecordTerminals(best, nodes) ==
    IF nodes = <<>> THEN best
    ELSE RecordTerminals(
             IF Head(nodes).is_terminal
               THEN record_candidate(best, Head(nodes).evaluation, Head(nodes).first_action)
               ELSE best,
             Tail(nodes))

\* The score folded for a popped node that is terminal or at the depth limit
\* (lines 187-193).
FoldedScore(node) ==
    IF node.is_terminal
      THEN LET parity == node.g_cost % 2
           IN IF parity = 1 /\ node.evaluation < 0 THEN -node.evaluation
              ELSE IF parity = 0 /\ node.evaluation > 0 THEN -node.evaluation
              ELSE node.evaluation
      ELSE node.evaluation

\* The leaf test that lets a node at the depth limit through.
LeafPastDepth(node, depth) == node.is_terminal \/ node.g_cost > depth

\* Whether a popped node is folded instead of expanded (line 186).
IsLeaf(node, depth) == node.is_terminal \/ node.g_cost >= depth

\* The counter that counts only the pops that expand a node.
CountExpansionsOnly(expansions, node, depth) ==
    IF IsLeaf(node, depth) THEN expansions ELSE expansions + 1

\* The expansion counter after one more pop (line 184).
CountPop(expansions, node, depth) == expansions + 1

\* The loop condition (line 182).
LoopContinues(open_nodes, expansions) ==
    open_nodes # <<>> /\ expansions < MaxExpansions

\* The depth the search works with (lines 118-119).
ClampDepth(depth) == IF depth < 1 THEN 1 ELSE depth

\* The end of the call without the fallback draw: no retained action is an
\* error.
FinalActionNoFallback(best_actions, candidate_moves, skill_children, r) ==
    IF best_actions = <<>>
      THEN [ok |-> FALSE, action |-> PlaceAction(NoCoord)]
      ELSE [ok |-> TRUE, action |-> Choice(r, best_actions)]

\* The action returned after the loop (lines 224-231) with rng in state r;
\* ok is FALSE where the source raises ValueError.
FinalAction(best_actions, candidate_moves, skill_children, r) ==
    IF best_actions = <<>>
      THEN IF candidate_moves # <<>>
             THEN [ok |-> TRUE, action |-> PlaceAction(Choice(r, candidate_moves))]
           ELSE IF skill_children # <<>>
             THEN [ok |-> TRUE,
                   action |-> Choice(r, [i \in 1..Len(skill_children) |->
                                            skill_children[i].action])]
           ELSE [ok |-> FALSE, action |-> PlaceAction(NoCoord)]
      ELSE [ok |-> TRUE, action |-> Choice(r, best_actions)]

(***************************************************************************)
(* Starting positions.  Every one is a position of a game in progress (or  *)
(* just over): no line of five unless a winner is recorded, one history    *)
(* record per stone, and cooldowns that turns of play produce.             *)
(***************************************************************************)
\* The grid with the given black and white stones.
GridOf(blacks, whites) ==
    [r \in 1..BoardSize |-> [c \in 1..BoardSize |->
        IF <<r - 1, c - 1>> \in blacks THEN BLACK_STONE
        ELSE IF <<r - 1, c - 1>> \in whites THEN WHITE_STONE
        ELSE EMPTY_CELL]]

\* A full board without a line of five: pairs of equal stones, each row
\* shifted by two columns.
PackedCell(r, c) == IF ((c + 2 * r) \div 2) % 2 = 0 THEN BLACK_STONE ELSE WHITE_STONE

PackedGrid == [r \in 1..BoardSize |-> [c \in 1..BoardSize |-> PackedCell(r - 1, c - 1)]]

\* grid with the cells of a set emptied, or set to a stone.
RECURSIVE WithCells(_, _, _)
WithCells(grid, cells, value) ==
    IF cells = {} THEN grid
    ELSE LET c == CHOOSE x \in cells : TRUE
         IN WithCells(SetCell(grid, c, value), cells \ {c}, value)

\* One history record per stone on the board.
HistoryOf(grid) ==
    LET occ == occupied_cells(grid)
    IN [i \in 1..Len(occ) |-> <<Get(grid, occ[i]), occ[i]>>]

\* Cooldown tables of one player: those of a new game, a player whose four
\* skills are all cooling down, and a player whose skills are all ready.
CooldownsNew == [n \in SkillNames |-> InitialCooldown(n)]
CooldownsBusy ==
    [n \in SkillNames |->
        CASE n = STONE_STORM -> StoneStormCooldown - 1
          [] n = STILL_WATERS -> StillWatersCooldown - 2
          [] n = MIGHTY_CLEARING -> MightyClearingCooldown - 4
          [] n = SEIZE_AND_MOVE -> SeizeAndMoveCooldown - 3]
CooldownsReady == [n \in SkillNames |-> 0]
\* Every skill cooling down but one.
CooldownsOnly(name) == [CooldownsBusy EXCEPT ![name] = 0]

\* A game in progress on grid, with player to move.
GameAt(grid, player, cursor, cooldowns) ==
    [NewGame EXCEPT !.grid = grid,
                    !.history = HistoryOf(grid),
                    !.current_player = player,
                    !.cursor = cursor,
                    !.skill_cooldowns = [p \in Players |->
                        IF p = player THEN cooldowns ELSE CooldownsBusy]]

\* Black has four in a row with both ends open; White has no threat.
OwnFourGrid ==
    GridOf({<<2, 1>>, <<2, 2>>, <<2, 3>>, <<2, 4>>},
           {<<0, 0>>, <<4, 4>>, <<5, 1>>, <<3, 5>>})

\* White has four in a row with both ends open; Black has no line of its own.
OppFourGrid ==
    GridOf({<<3, 0>>, <<3, 2>>, <<5, 0>>, <<5, 5>>},
           {<<0, 1>>, <<0, 2>>, <<0, 3>>, <<0, 4>>})

\* White has four in a row with both ends open; Black has three in a row
\* with both ends open.
OppFourOwnThreeGrid ==
    GridOf({<<2, 1>>, <<2, 2>>, <<2, 3>>, <<5, 5>>},
           {<<0, 1>>, <<0, 2>>, <<0, 3>>, <<0, 4>>})

\* White has four in a row with the cell (0, 0) before it empty, and a
\* stone of its own elsewhere.
OppFourSpareGrid ==
    GridOf({<<3, 0>>, <<3, 2>>, <<5, 0>>, <<5, 5>>, <<2, 4>>},
           {<<0, 1>>, <<0, 2>>, <<0, 3>>, <<0, 4>>, <<4, 4>>})

\* An opening: one stone each.
OpeningGrid == GridOf({<<2, 1>>}, {<<1, 4>>})

\* A crowded board: Black's open four in row 0 and one more empty cell.
CrowdedFourGrid ==
    WithCells(WithCells(PackedGrid, {<<0, 1>>, <<0, 2>>, <<0, 3>>, <<0, 4>>}, BLACK_STONE),
              {<<0, 0>>, <<0, 5>>, <<1, 2>>}, EMPTY_CELL)

\* A board with a single empty cell; filling it completes no line.
LastCellGrid == WithCells(PackedGrid, {<<1, 2>>}, EMPTY_CELL)

\* A board with a single empty cell on which White is ahead; filling the cell
\* completes no line.
BehindLastCellGrid == SetCell(LastCellGrid, <<4, 1>>, WHITE_STONE)

\* Black has completed five in a row: the game is over.
WonGrid == SetCell(OwnFourGrid, <<2, 0>>, BLACK_STONE)

SparseGames ==
    {GameAt(g, BLACK, cur, cd) :
        g \in {OwnFourGrid, OppFourGrid, OppFourOwnThreeGrid},
        cur \in {<<0, 1>>, <<3, 3>>},
        cd \in {CooldownsBusy, CooldownsReady}}
    \cup {GameAt(OppFourGrid, BLACK, <<0, 1>>, CooldownsOnly(SEIZE_AND_MOVE)),
          GameAt(OppFourSpareGrid, BLACK, <<4, 4>>, CooldownsOnly(SEIZE_AND_MOVE))}

OpeningGames == {NewGame, GameAt(OpeningGrid, BLACK, <<1, 4>>, CooldownsBusy)}

CrowdedGames ==
    {GameAt(CrowdedFourGrid, BLACK, <<1, 2>>, cd) : cd \in {CooldownsBusy, CooldownsReady}}
    \cup {GameAt(LastCellGrid, Opponent(BLACK), <<1, 2>>, CooldownsBusy),
          GameAt(BehindLastCellGrid, BLACK, <<1, 2>>, CooldownsBusy)}

\* An empty board on which either side is to move, with every skill cooling
\* down or every skill ready.
EmptyGames ==
    {GameAt(EmptyGrid, p, <<0, 0>>, cd) :
        p \in Players, cd \in {CooldownsBusy, CooldownsReady}}

FinishedGames ==
    {[GameAt(WonGrid, BLACK, <<2, 0>>, CooldownsReady) EXCEPT !.winner = BLACK],
     [GameAt(PackedGrid, BLACK, <<0, 0>>, CooldownsReady) EXCEPT !.draw = TRUE]}

\* A starting position, the depth argument and the state of the random source.
Scenarios ==
    {[game |-> g, depth |-> d, rng |-> r] :
        g \in OpeningGames \cup CrowdedGames \cup FinishedGames, d \in 0..MaxDepth, r \in Seeds}
    \cup {[game |-> g, depth |-> d, rng |-> r] : g \in SparseGames, d \in 1..2, r \in Seeds}
    \cup {[game |-> g, depth |-> d, rng |-> r] : g \in EmptyGames, d \in 0..1, r \in Seeds}

(***************************************************************************)
(* The state: the live game, the arguments of the pending choose_action    *)
(* call, and the locals of choose_action.                                  *)
(***************************************************************************)
VARIABLES
    game,             \* the live Game
    depth_arg,        \* the depth argument of the call
    rng,              \* the state of the caller's random source
    pc,               \* "idle", "loop" (lines 181-222), "returned", "raised", "played"
    depth,            \* depth after clamping
    current_player,   \* the root player
    candidate_moves,
    skill_children,
    open_nodes,       \* the heap
    best_score,
    best_actions,
    expansions,
    result,           \* the action returned, in a 1-tuple
    error,            \* the exception raised
    entry_game,       \* the live game as it was when the call began
    entry_rng,        \* the random source as it was when the call began
    pushes,           \* how many nodes have been pushed
    calls,            \* how many calls have begun
    first_result,     \* the result of the first call
    live_steps,       \* how many live operations have been applied
    recorded,         \* the calls of record_candidate made so far, in order
    args,             \* the arguments of a function called on its own
    rets              \* what that function returned

vars == <<game, depth_arg, rng, pc, depth, current_player, candidate_moves,
          skill_children, open_nodes, best_score, best_actions, expansions,
          result, error, entry_game, entry_rng, pushes, calls, first_result,
          live_steps, recorded, args, rets>>

locals == <<depth, current_player, candidate_moves, skill_children, open_nodes,
            best_score, best_actions, expansions, result, error, entry_game,
            entry_rng, pushes, calls, first_result, recorded>>

\* No call of choose_action has begun.
NoCall ==
    /\ pc = "idle"
    /\ depth = 0
    /\ current_player = None
    /\ candidate_moves = <<>>
    /\ skill_children = <<>>
    /\ open_nodes = <<>>
    /\ best_score = NegInf
    /\ best_actions = <<>>
    /\ expansions = 0
    /\ result = Nothing
    /\ error = None
    /\ entry_game = Nothing
    /\ entry_rng = 0
    /\ pushes = 0
    /\ calls = 0
    /\ first_result = Nothing
    /\ live_steps = 0
    /\ recorded = <<>>

Init ==
    /\ \E sc \in Scenarios :
          /\ game = sc.game
          /\ depth_arg = sc.depth
          /\ rng = sc.rng
    /\ NoCall
    /\ args = Nothing
    /\ rets = Nothing

\* The root nodes, in the order they are pushed: one per placement (lines
\* 142-160), then one per skill child (lines 162-179).
RECURSIVE RootPlacementNodes(_, _, _, _)
RootPlacementNodes(grid, player, root_cooldowns, moves) ==
    IF moves = <<>> THEN <<>>
    ELSE <<RootPlacementNode(grid, player, root_cooldowns, Head(moves))>>
         \o RootPlacementNodes(grid, player, root_cooldowns, Tail(moves))

RECURSIVE RootSkillNodes(_, _)
RootSkillNodes(children, player) ==
    IF children = <<>> THEN <<>>
    ELSE <<RootSkillNode(Head(children), player)>> \o RootSkillNodes(Tail(children), player)

\* The children of an expanded node, in the order they are pushed (lines
\* 202-222).
RECURSIVE ChildNodes(_, _, _)
ChildNodes(node, player, moves) ==
    IF moves = <<>> THEN <<>>
    ELSE <<ChildNode(node, player, Head(moves))>> \o ChildNodes(node, player, Tail(moves))

\* Lines 118-179 of choose_action, called on the live game with the random
\* source in state r: the root candidates, the frontier and the terminal
\* root children recorded.
Enter(r) ==
    \E sr \in SimulatedRng(r) :
    \E moves \in {_candidate_moves(_grid_from_board(game))} :
    \E sims \in {_root_skill_simulations(game, from_game(game, _skill_order(game)), sr)} :
    \E nodes \in {RootPlacementNodes(_grid_from_board(game), game.current_player,
                                     from_game(game, _skill_order(game)), moves)
                  \o RootSkillNodes(sims.results, game.current_player)} :
    \E pushed \in {PushAll(<<>>, nodes)} :
    \E best \in {RecordTerminals([score |-> NegInf, actions |-> <<>>], nodes)} :
    \E failed \in {IF sims.raised THEN "InvalidSkillActivation"
                   ELSE IF moves = <<>> /\ sims.results = <<>> THEN "NoLegalAction"
                   ELSE IF ~pushed.ok THEN "TypeError"
                   ELSE None} :
        /\ game' = sims.live
        /\ entry_game' = <<game>>
        /\ entry_rng' = r
        /\ rng' = r
        /\ depth' = ClampDepth(depth_arg)
        /\ current_player' = game.current_player
        /\ candidate_moves' = moves
        /\ skill_children' = IF sims.raised THEN <<>> ELSE sims.results
        /\ expansions' = 0
        /\ result' = Nothing
        /\ calls' = calls + 1
        /\ IF failed # None
             THEN /\ pc' = "raised"
                  /\ error' = failed
                  /\ open_nodes' = <<>>
                  /\ best_score' = NegInf
                  /\ best_actions' = <<>>
                  /\ pushes' = 0
                  /\ recorded' = <<>>
             ELSE /\ pc' = "loop"
                  /\ error' = None
                  /\ open_nodes' = pushed.heap
                  /\ best_score' = best.score
                  /\ best_actions' = best.actions
                  /\ pushes' = Len(nodes)
                  /\ recorded' = RootRecordings(nodes)

\* choose_action(game, depth_arg, rng) is called.
ChooseAction ==
    /\ pc = "idle"
    /\ Enter(rng)
    /\ UNCHANGED <<depth_arg, first_result, live_steps, args, rets>>

\* One iteration of the expansion loop (lines 182-222).
LoopStep ==
    /\ pc = "loop"
    /\ LoopContinues(open_nodes, expansions)
    /\ \E popped \in {heappop(open_nodes)} :
       \E node \in {popped.item} :
       \E next_moves \in {IF IsLeaf(node, depth) THEN <<>> ELSE _candidate_moves(node.grid)} :
       \E applies \in {\A i \in 1..Len(next_moves) :
                          _apply_move(node.grid, next_moves[i], Stone(node.player_to_move)).ok} :
       \E children \in {IF applies THEN ChildNodes(node, current_player, next_moves) ELSE <<>>} :
       \E pushed \in {PushAll(popped.heap, children)} :
       \E score \in {IF IsLeaf(node, depth) THEN FoldedScore(node) ELSE node.evaluation} :
       \E folded \in {record_candidate([score |-> best_score, actions |-> best_actions],
                                       score, node.first_action)} :
       \E failed \in {IF ~popped.ok THEN "TypeError"
                      ELSE IF ~applies THEN "ValueError"
                      ELSE IF ~pushed.ok THEN "TypeError"
                      ELSE None} :
          /\ expansions' = CountPop(expansions, node, depth)
          /\ IF failed # None
               THEN /\ pc' = "raised"
                    /\ error' = failed
                    /\ open_nodes' = popped.heap
                    /\ UNCHANGED <<best_score, best_actions, pushes, recorded>>
             ELSE IF next_moves # <<>>
               THEN /\ open_nodes' = pushed.heap
                    /\ pushes' = pushes + Len(children)
                    /\ UNCHANGED <<pc, error, best_score, best_actions, recorded>>
               ELSE /\ open_nodes' = popped.heap
                    /\ best_score' = folded.score
                    /\ best_actions' = folded.actions
                    /\ recorded' = Append(recorded, Recording(node, score))
                    /\ UNCHANGED <<pc, error, pushes>>
    /\ UNCHANGED <<game, depth_arg, rng, depth, current_player, candidate_moves,
                   skill_children, result, entry_game, entry_rng, calls,
                   first_result, live_steps, args, rets>>

\* The loop has ended: the action is drawn and returned (lines 224-231).
Finish ==
    /\ pc = "loop"
    /\ ~LoopContinues(open_nodes, expansions)
    /\ \E final \in {FinalAction(best_actions, candidate_moves, skill_children, rng)} :
          IF final.ok
            THEN /\ pc' = "returned"
                 /\ result' = <<final.action>>
                 /\ rng' = NextRng(rng)
                 /\ error' = None
            ELSE /\ pc' = "raised"
                 /\ error' = "SearchFailed"
                 /\ UNCHANGED <<result, rng>>
    /\ UNCHANGED <<game, depth_arg, depth, current_player, candidate_moves,
                   skill_children, open_nodes, best_score, best_actions, expansions,
                   entry_game, entry_rng, pushes, calls, first_result, live_steps,
                   recorded, args, rets>>

\* The same call is made once more: same game, same depth, and a random
\* source in the state the first call started from.
CallAgain ==
    /\ pc = "returned"
    /\ calls < MaxCalls
    /\ first_result' = result
    /\ Enter(entry_rng)
    /\ UNCHANGED <<depth_arg, live_steps, args, rets>>

\* After the call the game goes on: Game.place_at_cursor on the live game.
PlaceAtCursor ==
    /\ pc \in {"returned", "raised", "played"}
    /\ live_steps < MaxLiveSteps
    /\ \E placed \in {place_stone(game, game.cursor)} :
          /\ placed.ok
          /\ game' = placed.game
    /\ pc' = "played"
    /\ live_steps' = live_steps + 1
    /\ UNCHANGED <<depth_arg, rng, args, rets>>
    /\ UNCHANGED locals

\* After the call the game goes on: Game.use_skill on the live game, whose
\* own random source is in state r.
UseSkill(skill_name, r) ==
    /\ pc \in {"returned", "raised", "played"}
    /\ live_steps < MaxLiveSteps
    /\ \E used \in {use_skill(game, skill_name, r)} :
          /\ used.ok
          /\ game' = used.game
    /\ pc' = "played"
    /\ live_steps' = live_steps + 1
    /\ UNCHANGED <<depth_arg, rng, args, rets>>
    /\ UNCHANGED locals

Next ==
    \/ ChooseAction
    \/ LoopStep
    \/ Finish
    \/ PlaceAtCursor
    \/ \E n \in SkillNames, r \in Seeds : UseSkill(n, r)

Spec == Init /\ [][Next]_vars

\* The caller repeats its call.
NextRepeated ==
    \/ ChooseAction
    \/ LoopStep
    \/ Finish
    \/ CallAgain

SpecRepeated == Init /\ [][NextRepeated]_vars

\* A step of a call that has not yet ended, told by what it does to the
\* position in the call and to the pop counter: the call is entered, a node
\* is popped, or the call returns or raises.  Every step of ChooseAction,
\* LoopStep and Finish is such a step, and one of the three is enabled
\* whenever a call is pending or in its loop.
SearchStep ==
    /\ pc \in {"idle", "loop"}
    /\ pc' \in {"loop", "returned", "raised"}
    /\ expansions' \in 0..MaxExpansions
    /\ pc' # pc \/ expansions' = expansions + 1

\* The call runs to its end: choose_action is a sequential function, whose
\* next step is taken as long as the call has not ended.
SpecFair ==
    /\ Init
    /\ [][Next]_vars
    /\ WF_<<pc, expansions>>(SearchStep)

(***************************************************************************)
(* The grid functions called on their own: the move generator and the      *)
(* static evaluation applied to a grid, which is a sample grid with up to  *)
(* MaxPlaced further stones on it.                                         *)
(***************************************************************************)
\* Fours along a column and an anti-diagonal (Black) and a diagonal (White).
SlantedFoursGrid ==
    GridOf({<<0, 0>>, <<1, 0>>, <<2, 0>>, <<3, 0>>, <<0, 5>>, <<1, 4>>, <<2, 3>>, <<3, 2>>},
           {<<1, 1>>, <<2, 2>>, <<3, 3>>, <<4, 4>>})

GridSamples ==
    {EmptyGrid, OpeningGrid, OwnFourGrid, OppFourGrid, OppFourOwnThreeGrid, WonGrid,
     CrowdedFourGrid, LastCellGrid, PackedGrid, SlantedFoursGrid}

\* No call of choose_action is made while a function is called on its own.
NoSearch ==
    /\ UNCHANGED <<game, depth_arg, rng, pc, live_steps>>
    /\ UNCHANGED locals

InitGrid ==
    /\ game = NewGame
    /\ depth_arg = 0
    /\ rng = 0
    /\ NoCall
    /\ args \in {[grid |-> g, placed |-> 0] : g \in GridSamples}
    /\ rets = Nothing

\* A stone is put on an empty cell of the grid.
PutStone(coord, stone) ==
    /\ args.placed < MaxPlaced
    /\ is_empty(args.grid, coord)
    /\ args' = [grid |-> SetCell(args.grid, coord, stone), placed |-> args.placed + 1]
    /\ rets' = Nothing
    /\ NoSearch

\* list(_candidate_moves(grid)), with what its locality loop yielded.
Generate ==
    /\ rets' = <<[fn |-> "_candidate_moves",
                  moves |-> _candidate_moves(args.grid),
                  scan |-> LocalityScan(args.grid, occupied_cells(args.grid), <<>>)]>>
    /\ UNCHANGED args
    /\ NoSearch

\* _static_evaluation(grid, p) for both players, and once more for Black.
Evaluate ==
    /\ rets' = <<[fn |-> "_static_evaluation",
                  value |-> [p \in Players |-> _static_evaluation(args.grid, p)],
                  again |-> _static_evaluation(args.grid, BLACK),
                  score |-> [p \in Players |-> _score_for_player(args.grid, p)]]>>
    /\ UNCHANGED args
    /\ NoSearch

NextGrid ==
    \/ \E coord \in Coords, stone \in {BLACK_STONE, WHITE_STONE} : PutStone(coord, stone)
    \/ Generate
    \/ Evaluate

SpecGrid == InitGrid /\ [][NextGrid]_vars

(***************************************************************************)
(* The operations of _CooldownState called on their own, on the snapshot   *)
(* of a game and on the snapshots they return.                             *)
(***************************************************************************)
SnapshotSamples ==
    {from_game(g, _skill_order(g)) :
        g \in {NewGame,
               GameAt(OpeningGrid, BLACK, <<1, 4>>, CooldownsBusy),
               GameAt(OwnFourGrid, BLACK, <<0, 1>>, CooldownsReady),
               GameAt(OppFourGrid, BLACK, <<0, 1>>, CooldownsOnly(SEIZE_AND_MOVE))}}

InitCooldown ==
    /\ game = NewGame
    /\ depth_arg = 0
    /\ rng = 0
    /\ NoCall
    /\ args \in {[state |-> st, steps |-> 0] : st \in SnapshotSamples}
    /\ rets = Nothing

\* state.advance_after_move(player): self is the snapshot it was called on,
\* as it is after the call (the method builds new tuples, lines 51-62).
AdvanceAfterMove(player) ==
    /\ args.steps < MaxSnapshotSteps
    /\ rets' = <<[fn |-> "advance_after_move", player |-> player, before |-> args.state,
                  self |-> args.state,
                  result |-> advance_after_move(args.state, player)]>>
    /\ args' = [state |-> advance_after_move(args.state, player), steps |-> args.steps + 1]
    /\ NoSearch

\* state.with_skill_triggered(player, skill_name, cooldown_turns).
WithSkillTriggered(player, skill_name, cooldown_turns) ==
    /\ args.steps < MaxSnapshotSteps
    /\ \E triggered \in {with_skill_triggered(args.state, player, skill_name, cooldown_turns)} :
          /\ triggered.ok
          /\ rets' = <<[fn |-> "with_skill_triggered", player |-> player,
                        skill_name |-> skill_name, cooldown_turns |-> cooldown_turns,
                        before |-> args.state, self |-> args.state,
                        result |-> triggered.state]>>
          /\ args' = [state |-> triggered.state, steps |-> args.steps + 1]
    /\ NoSearch

NextCooldown ==
    \/ \E player \in Players : AdvanceAfterMove(player)
    \/ \E player \in Players, skill_name \in SkillNames :
          \E cooldown_turns \in {1, CooldownTurns(skill_name)} :
              WithSkillTriggered(player, skill_name, cooldown_turns)

SpecCooldown == InitCooldown /\ [][NextCooldown]_vars

(***************************************************************************)
(* The live game on its own: placements, skill activations and resets.     *)
(***************************************************************************)
LiveSamples ==
    {NewGame,
     GameAt(OwnFourGrid, BLACK, <<2, 0>>, CooldownsReady),
     GameAt(OppFourSpareGrid, BLACK, <<4, 4>>, CooldownsOnly(SEIZE_AND_MOVE)),
     GameAt(OpeningGrid, WHITE, <<2, 1>>, CooldownsReady),
     GameAt(LastCellGrid, WHITE, <<1, 2>>, CooldownsBusy),
     [GameAt(WonGrid, BLACK, <<2, 0>>, CooldownsReady) EXCEPT !.winner = BLACK]}

\* For each player and skill, how many turns of the player have begun since
\* the player last used the skill in this run; -1 when it has not.
NeverUsed == [p \in Players |-> [n \in SkillNames |-> -1]]

InitLive ==
    /\ game \in LiveSamples
    /\ depth_arg = 0
    /\ rng = 0
    /\ NoCall
    /\ args = [begun |-> NeverUsed]
    /\ rets = Nothing

\* A turn of player begins in the step that leads to the game after: the
\* game goes on and the player is to move, or was to move and was skipped.
TurnBegins(player, after) ==
    /\ ~is_finished(after)
    /\ after.current_player = player \/ after.skipped_last_player = player

\* The count of turns begun, after a successful operation of before's side
\* to move that used the skill used (None for a placement).
Begun(begun, before, after, used) ==
    [p \in Players |-> [n \in SkillNames |->
        LET base == IF used = n /\ p = before.current_player THEN 0 ELSE begun[p][n]
        IN IF base >= 0 /\ TurnBegins(p, after) THEN base + 1 ELSE base]]

\* The cells a stone is put on: the cursor's cell and the first empty cell
\* in row-major order.
PlayCells(g) ==
    {g.cursor} \cup (IF EmptyCells(g.grid) = <<>> THEN {} ELSE {Head(EmptyCells(g.grid))})

\* The cells the cursor is moved to: the cell of the last stone placed.
CursorCells(g) ==
    IF g.last_move = Nothing THEN {} ELSE {g.last_move[1].coordinate}

\* What the last operation was, on which game and with what outcome.
Operation(fn, before, ok, coord, skill_name) ==
    <<[fn |-> fn, before |-> before, ok |-> ok, coord |-> coord, skill_name |-> skill_name]>>

\* Game.set_cursor(coord)
LiveSetCursor(coord) ==
    /\ coord # game.cursor
    /\ \E moved \in {set_cursor(game, coord)} :
          /\ game' = moved.game
          /\ rets' = Operation("set_cursor", game, moved.ok, coord, None)
    /\ UNCHANGED <<depth_arg, rng, pc, live_steps, args>>
    /\ UNCHANGED locals

\* Game.place_stone(coord)
LivePlace(coord) ==
    /\ \E placed \in {place_stone(game, coord)} :
          /\ placed.ok => live_steps < MaxTurns
          /\ game' = placed.game
          /\ live_steps' = IF placed.ok THEN live_steps + 1 ELSE live_steps
          /\ args' = IF placed.ok
                       THEN [begun |-> Begun(args.begun, game, placed.game, None)]
                       ELSE args
          /\ rets' = Operation("place_stone", game, placed.ok, coord, None)
    /\ UNCHANGED <<depth_arg, rng, pc>>
    /\ UNCHANGED locals

\* Game.use_skill(skill_name), the game's random source being in state r.
LiveUseSkill(skill_name, r) ==
    /\ \E used \in {use_skill(game, skill_name, r)} :
          /\ used.ok => live_steps < MaxTurns
          /\ game' = used.game
          /\ live_steps' = IF used.ok THEN live_steps + 1 ELSE live_steps
          /\ args' = IF used.ok
                       THEN [begun |-> Begun(args.begun, game, used.game, skill_name)]
                       ELSE args
          /\ rets' = Operation("use_skill", game, used.ok, NoCoord, skill_name)
    /\ UNCHANGED <<depth_arg, rng, pc>>
    /\ UNCHANGED locals

\* Game.reset()
LiveReset ==
    /\ live_steps < MaxTurns
    /\ game' = reset(game)
    /\ live_steps' = live_steps + 1
    /\ args' = [begun |-> NeverUsed]
    /\ rets' = Operation("reset", game, TRUE, NoCoord, None)
    /\ UNCHANGED <<depth_arg, rng, pc>>
    /\ UNCHANGED locals

NextLive ==
    \/ \E coord \in PlayCells(game) : LivePlace(coord)
    \/ \E coord \in CursorCells(game) : LiveSetCursor(coord)
    \/ \E n \in SkillNames, r \in Seeds : LiveUseSkill(n, r)
    \/ LiveReset

SpecLive == InitLive /\ [][NextLive]_vars

(***************************************************************************)
(* ai/opponent.py: AIOpponent.take_turn on a live game.                    *)
(***************************************************************************)
TurnGames ==
    {NewGame,
     GameAt(OpeningGrid, BLACK, <<1, 4>>, CooldownsBusy),
     GameAt(OwnFourGrid, BLACK, <<2, 0>>, CooldownsOnly(SEIZE_AND_MOVE))}

\* AIPersona.search_depth of the personas that fit the depth bound.
PersonaDepths == {1, 2}

\* args holds the opponent's player, how far take_turn has come, and the
\* game as it was when take_turn was called.
InitTurn ==
    /\ game \in TurnGames
    /\ depth_arg \in PersonaDepths
    /\ rng \in Seeds
    /\ NoCall
    /\ \E p \in Players : args = [player |-> p, phase |-> "start", entry |-> game]
    /\ rets = Nothing

\* What take_turn did: the value it returned, or that it raised.
Outcome(returned, raised) ==
    <<[fn |-> "take_turn", returned |-> returned, raised |-> raised]>>

\* Lines 26-27: it is not the opponent's turn.
TakeTurnNotMine ==
    /\ args.phase = "start"
    /\ game.current_player # args.player
    /\ rets' = Outcome(FALSE, FALSE)
    /\ args' = [args EXCEPT !.phase = "done"]
    /\ UNCHANGED <<game, depth_arg, rng, pc, live_steps>>
    /\ UNCHANGED locals

\* _available_skill_names
_available_skill_names(g, player) ==
    {n \in SkillNames : g.skill_cooldowns[player][n] = 0}

\* _prepare_skill with the opponent's stone picked being target: ok is what
\* it returns.
_prepare_skill(g, player, skill_name, target) ==
    IF skill_name = SEIZE_AND_MOVE
      THEN IF occupied_by_player(g, Opponent(player)) = <<>>
             THEN [ok |-> FALSE, game |-> g]
             ELSE [ok |-> TRUE, game |-> [g EXCEPT !.cursor = target]]
    ELSE IF skill_name = STONE_STORM
      THEN [ok |-> occupied_by_player(g, Opponent(player)) # <<>>, game |-> g]
    ELSE [ok |-> TRUE, game |-> g]

\* The stones _find_opponent_stone draws from.
PickableStones(g, player) ==
    IF occupied_by_player(g, Opponent(player)) = <<>> THEN {NoCoord}
    ELSE {occupied_by_player(g, Opponent(player))[i] :
             i \in 1..Len(occupied_by_player(g, Opponent(player)))}

\* _try_use_skill when the chance falls and the persona picks skill_name
\* (lines 40-62): the skill is used and take_turn returns True, or the
\* attempt fails and take_turn goes on to the search.
TryUseSkill(skill_name, r) ==
    /\ args.phase = "start"
    /\ game.current_player = args.player
    /\ skill_name \in _available_skill_names(game, args.player)
    /\ \E target \in PickableStones(game, args.player) :
       \E prepared \in {_prepare_skill(game, args.player, skill_name, target)} :
       \E used \in {IF prepared.ok THEN use_skill(prepared.game, skill_name, r)
                    ELSE [ok |-> FALSE, game |-> prepared.game]} :
          /\ game' = used.game
          /\ rets' = IF used.ok THEN Outcome(TRUE, FALSE) ELSE rets
          /\ args' = [args EXCEPT !.phase = IF used.ok THEN "done" ELSE "search"]
    /\ UNCHANGED <<depth_arg, rng, pc, live_steps>>
    /\ UNCHANGED locals

\* _try_use_skill returns False without trying a skill (lines 41-52).
NoSkillTried ==
    /\ args.phase = "start"
    /\ game.current_player = args.player
    /\ args' = [args EXCEPT !.phase = "search"]
    /\ UNCHANGED <<game, depth_arg, rng, pc, live_steps, rets>>
    /\ UNCHANGED locals

\* Line 32: choose_move calls choose_action(game, search_depth, rng).
TurnSearch ==
    /\ args.phase = "search"
    /\ ChooseAction

\* choose_move (search.py 106-112) once choose_action has come back, and
\* lines 33-35 of take_turn: an action with no move makes choose_move raise
\* ValueError, which take_turn lets through; a move is placed at the cursor.
TakeTurnFinish ==
    /\ args.phase = "search"
    /\ pc \in {"returned", "raised"}
    /\ IF pc = "raised" \/ result[1].move = NoCoord
         THEN /\ rets' = Outcome(FALSE, TRUE)
              /\ UNCHANGED game
         ELSE \E placed \in {place_stone([game EXCEPT !.cursor = result[1].move],
                                         result[1].move)} :
                 /\ game' = placed.game
                 /\ rets' = Outcome(placed.ok, ~placed.ok)
    /\ args' = [args EXCEPT !.phase = "done"]
    /\ UNCHANGED <<depth_arg, rng, pc, live_steps>>
    /\ UNCHANGED locals

NextTurn ==
    \/ TakeTurnNotMine
    \/ \E n \in SkillNames, r \in Seeds : TryUseSkill(n, r)
    \/ NoSkillTried
    \/ TurnSearch
    \/ LoopStep
    \/ Finish
    \/ TakeTurnFinish

SpecTurn == InitTurn /\ [][NextTurn]_vars

(***************************************************************************)
(* Vocabulary of the properties.                                           *)
(***************************************************************************)
\* A call of choose_action is under way or has ended, and the live game has
\* not been played on since.
InCall == pc \in {"loop", "returned", "raised"}

\* The first_action of the frontier nodes, the actions retained as best, and
\* the action returned.
FrontierActions == {open_nodes[i].first_action : i \in 1..Len(open_nodes)}
RetainedActions == {best_actions[i] : i \in 1..Len(best_actions)}
ReturnedActions == IF result = Nothing THEN {} ELSE {result[1]}
ChildActions == {skill_children[i].action : i \in 1..Len(skill_children)}
SearchActions == FrontierActions \cup RetainedActions \cup ReturnedActions

\* The remaining cooldown of a skill for the side to move.
Remaining(g, skill_name) == g.skill_cooldowns[g.current_player][skill_name]

(***************************************************************************)
(* C1                                                                      *)
(***************************************************************************)
\* C1: from the moment choose_action is called until it has returned or
\* raised, root skill simulations included (successful or failing), the live
\* Game is what it was when the call began: grid, history, current_player,
\* cursor, skill_cooldowns, winner, draw, skip_next_player and last_move.
C1_LiveGameUnchanged == InCall => game = entry_game[1]

\* A call has returned after a successful simulation (a skill child exists)
\* and a failing one (Seize and Move was ready and is not among the children).
C1_Witness ==
    /\ pc = "returned"
    /\ game = entry_game[1]
    /\ skill_children # <<>>
    /\ Remaining(game, SEIZE_AND_MOVE) = 0
    /\ \A a \in ChildActions : a.skill # SEIZE_AND_MOVE

(***************************************************************************)
(* C2                                                                      *)
(***************************************************************************)
\* An action built at the root for the position the call was given: a
\* placement at an empty cell the move generator yields for the live grid,
\* or the action of a skill child whose simulation on the live game succeeds.
IsRootAction(a, live, moves) ==
    IF a.skill = None
      THEN /\ a.skill_target = NoCoord
           /\ InSeq(a.move, moves)
           /\ is_empty(live.grid, a.move)
      ELSE /\ a.move = NoCoord
           /\ a \in ChildActions
           /\ _simulate_skill_effect(live, from_game(live, _skill_order(live)),
                                     a.skill, entry_rng, a.skill_target).ok

\* C2: the action choose_action returns is one of the root-level actions
\* built for the live position, a placement at a cell that is empty in the
\* live grid and that the move generator yields for it, or a skill action of
\* a successful root simulation; every frontier node, however deep, carries
\* such an action as its first_action, and so does every action retained as
\* best; this holds on the fallback path too.
C2_ReturnsRootAction ==
    pc \in {"loop", "returned"} =>
        /\ candidate_moves = _candidate_moves(entry_game[1].grid)
        /\ \A a \in SearchActions : IsRootAction(a, entry_game[1], candidate_moves)

\* A call has returned on the fallback path (no action was retained as
\* best) while nodes three plies deep were still on the frontier.
C2_Witness ==
    /\ pc = "returned"
    /\ best_actions = <<>>
    /\ result # Nothing
    /\ \E i \in 1..Len(open_nodes) : open_nodes[i].g_cost >= 3

(***************************************************************************)
(* C3                                                                      *)
(***************************************************************************)
\* C3: a skill whose remaining cooldown for the side to move is above zero
\* is never simulated into a root child, is the first_action of no frontier
\* node, and is never returned, on the scored path or the fallback path.
C3_CoolingSkillNeverChosen ==
    InCall =>
        \A a \in ChildActions \cup SearchActions :
            a.skill # None => Remaining(entry_game[1], a.skill) = 0

\* A call returned a skill while another skill of the side to move was
\* still cooling down.
C3_Witness ==
    /\ pc = "returned"
    /\ result[1].skill # None
    /\ \E name \in SkillNames : Remaining(entry_game[1], name) > 0

(***************************************************************************)
(* C4                                                                      *)
(***************************************************************************)
\* Mighty Clearing is no root child, no first_action and not returned.
MightyClearingAbsent ==
    pc \in {"loop", "returned", "raised", "played"} =>
        \A a \in ChildActions \cup SearchActions : a.skill # MIGHTY_CLEARING

\* C4: Mighty Clearing is never simulated as a root candidate and never
\* returned by choose_action, even at cooldown zero; the live use_skill
\* still accepts it when its cooldown is zero and the game is not finished.
C4_MightyClearingLiveOnly ==
    /\ MightyClearingAbsent
    /\ (~is_finished(game) /\ Remaining(game, MIGHTY_CLEARING) = 0) =>
           \A r \in Seeds : use_skill(game, MIGHTY_CLEARING, r).ok

\* C4 as the specification words it: the live use_skill accepts Mighty
\* Clearing whenever its cooldown is zero.
C4_AsStated ==
    /\ MightyClearingAbsent
    /\ Remaining(game, MIGHTY_CLEARING) = 0 =>
           \A r \in Seeds : use_skill(game, MIGHTY_CLEARING, r).ok

\* A search that had Mighty Clearing ready returned another action, and the
\* live game then accepted Mighty Clearing.
C4_Witness ==
    /\ pc = "played"
    /\ result # Nothing
    /\ Remaining(entry_game[1], MIGHTY_CLEARING) = 0
    /\ game.last_skill # Nothing
    /\ game.last_skill[1].skill_name = MIGHTY_CLEARING

(***************************************************************************)
(* C5                                                                      *)
(***************************************************************************)
\* C5: choose_action raises NoLegalAction exactly when the move generator
\* yields no placement for the live grid and no root skill simulation
\* succeeds; it raises nothing else, the error after the expansion loop
\* included, and a call that ends otherwise ends with an action.
C5_NoLegalActionIffNothingToDo ==
    /\ pc = "raised" =>
           /\ error = "NoLegalAction"
           /\ _candidate_moves(entry_game[1].grid) = <<>>
           /\ _root_skill_simulations(entry_game[1],
                  from_game(entry_game[1], _skill_order(entry_game[1])),
                  entry_rng).results = <<>>
    /\ pc \in {"loop", "returned"} =>
           /\ error = None
           /\ candidate_moves # <<>> \/ skill_children # <<>>
    /\ pc = "returned" => result # Nothing

\* A call raised NoLegalAction.
C5_Witness ==
    /\ pc = "raised"
    /\ error = "NoLegalAction"
    /\ candidate_moves = <<>>
    /\ skill_children = <<>>

(***************************************************************************)
(* C6                                                                      *)
(***************************************************************************)
\* The skills among the root children.
ChildSkills == {a.skill : a \in ChildActions}

\* C6: a ready skill whose simulation fails (Seize and Move with the live
\* cursor off an opponent stone, any skill in a finished game) is dropped
\* without choose_action raising for it; the placements and the other
\* skills are still candidates; Seize and Move is a candidate only when the
\* live cursor holds an opponent stone, with that cell as its skill_target.
C6_FailedSimulationDropped ==
    InCall =>
        /\ error # "InvalidSkillActivation"
        /\ candidate_moves = _candidate_moves(entry_game[1].grid)
        /\ \A a \in ChildActions \cup SearchActions :
               a.skill = SEIZE_AND_MOVE =>
                   /\ Get(entry_game[1].grid, entry_game[1].cursor)
                          = Stone(Opponent(entry_game[1].current_player))
                   /\ a.skill_target = entry_game[1].cursor
        /\ is_finished(entry_game[1]) => skill_children = <<>>
        /\ (~is_finished(entry_game[1])
              /\ Remaining(entry_game[1], STILL_WATERS) = 0)
               => STILL_WATERS \in ChildSkills
        /\ (~is_finished(entry_game[1])
              /\ Remaining(entry_game[1], STONE_STORM) = 0
              /\ occupied_by_player(entry_game[1], Opponent(entry_game[1].current_player))
                     # <<>>)
               => STONE_STORM \in ChildSkills

\* A call returned after the simulation of a ready Seize and Move failed
\* (cursor not on an opponent stone) and Still Waters stayed a candidate.
C6_Witness ==
    /\ pc = "returned"
    /\ Remaining(entry_game[1], SEIZE_AND_MOVE) = 0
    /\ Get(entry_game[1].grid, entry_game[1].cursor)
           # Stone(Opponent(entry_game[1].current_player))
    /\ SEIZE_AND_MOVE \notin ChildSkills
    /\ STILL_WATERS \in ChildSkills
    /\ candidate_moves # <<>>

(***************************************************************************)
(* C7                                                                      *)
(***************************************************************************)
\* The pop counter: every pop is counted, a leaf's or a terminal node's
\* too (the pops made are the pushes made less the nodes still waiting), it
\* never passes the budget, and the loop is left before the budget is spent
\* only with an empty frontier.
PopsCounted ==
    /\ expansions <= MaxExpansions
    /\ pc = "loop" => expansions = pushes - Len(open_nodes)
    /\ pc = "returned" =>
           /\ expansions = pushes - Len(open_nodes)
           /\ expansions = MaxExpansions \/ open_nodes = <<>>

\* The call has ended: it returned or raised (or the game was played on).
Ended == pc \in {"returned", "raised", "played"}

\* C7: choose_action always terminates: the expansion loop makes at most
\* MaxExpansions pops, the pops of leaf and terminal nodes counted, stops
\* earlier only when the frontier is empty, and the call then returns or
\* raises; the bound is the pop counter.
C7_Terminates ==
    /\ []PopsCounted
    /\ [][pc = "loop" /\ pc' = "loop" => expansions' = expansions + 1]_vars
    /\ <>Ended

\* A call returned because the budget was spent, with nodes still waiting
\* on the frontier.
C7_Witness ==
    /\ pc = "returned"
    /\ expansions = MaxExpansions
    /\ open_nodes # <<>>

Along(coord, delta, k) == <<coord[1] + k * delta[1], coord[2] + k * delta[2]>>

\* The two cells that extend (or block) a four in a row of stone with both
\* ends open, for every such four on the grid.
OpenFourEnds(grid, stone) ==
    UNION {{Along(c, _DIRECTIONS[d], -1), Along(c, _DIRECTIONS[d], 4)} :
           <<c, d>> \in {<<c, d>> \in Coords \X (1..Len(_DIRECTIONS)) :
               /\ \A k \in 0..3 : Get(grid, Along(c, _DIRECTIONS[d], k)) = stone
               /\ is_empty(grid, Along(c, _DIRECTIONS[d], -1))
               /\ is_empty(grid, Along(c, _DIRECTIONS[d], 4))}}

\* The side to move has a placement that completes a five of its own.
HasWinningPlacement(g) ==
    \E c \in Coords :
        /\ is_empty(g.grid, c)
        /\ _apply_move(g.grid, c, Stone(g.current_player)).win

\* C9: when the side to move has four in a row with both ends open and the
\* depth is at least 1, choose_action returns a Place at one of the two
\* cells that extend the line to five.
C9_AsStated ==
    (/\ pc = "returned"
     /\ depth_arg >= 1
     /\ ~is_finished(entry_game[1])
     /\ OpenFourEnds(entry_game[1].grid, Stone(entry_game[1].current_player)) # {})
    => /\ result[1].skill = None
       /\ result[1].move \in OpenFourEnds(entry_game[1].grid,
                                          Stone(entry_game[1].current_player))

\* C10: when the opponent has four in a row with both ends open and the
\* side to move has no placement completing a five of its own,
\* choose_action returns a Place at one of the two blocking cells.
C10_AsStated ==
    (/\ pc = "returned"
     /\ ~is_finished(entry_game[1])
     /\ OpenFourEnds(entry_game[1].grid,
                     Stone(Opponent(entry_game[1].current_player))) # {}
     /\ ~HasWinningPlacement(entry_game[1]))
    => /\ result[1].skill = None
       /\ result[1].move \in OpenFourEnds(entry_game[1].grid,
                                          Stone(Opponent(entry_game[1].current_player)))

(***************************************************************************)
(* C11                                                                     *)
(***************************************************************************)
\* C11: on an empty board with depth 1, choose_action returns the placement
\* at the centre cell, whatever the state of the random source and whatever
\* the cooldowns, a skill ready for the side to move included.
C11_EmptyBoardCentre ==
    (/\ pc = "returned"
     /\ depth_arg = 1
     /\ entry_game[1].grid = EmptyGrid)
    => result = <<PlaceAction(<<BoardSize \div 2, BoardSize \div 2>>)>>

\* A depth-1 call on an empty board returned the centre although a skill
\* was ready and had been simulated into a root child.
C11_Witness ==
    /\ pc = "returned"
    /\ depth_arg = 1
    /\ entry_game[1].grid = EmptyGrid
    /\ skill_children # <<>>
    /\ result = <<PlaceAction(<<BoardSize \div 2, BoardSize \div 2>>)>>

(***************************************************************************)
(* C12                                                                     *)
(***************************************************************************)
\* The cells holding a stone, and the empty cells within Chebyshev distance
\* 2 of one of them.
Occupied(grid) == {c \in Coords : Get(grid, c) \in {BLACK_STONE, WHITE_STONE}}
Chebyshev(a, b) == Max(Abs(a[1] - b[1]), Abs(a[2] - b[2]))
Locality(grid) ==
    {c \in Coords : is_empty(grid, c) /\ \E o \in Occupied(grid) : Chebyshev(c, o) <= 2}

\* C12: the move generator yields the centre cell alone for an empty grid;
\* for a grid with a stone it yields, each exactly once, the empty cells
\* within Chebyshev distance 2 of an occupied cell, or every empty cell
\* when there is none; it yields no occupied cell, no cell off the board
\* and no cell twice.
C12_GeneratorYield ==
    (rets # Nothing /\ rets[1].fn = "_candidate_moves") =>
        LET moves == rets[1].moves
            yielded == {moves[i] : i \in 1..Len(moves)}
        IN /\ Len(moves) = Cardinality(yielded)
           /\ \A c \in yielded : c \in Coords /\ is_empty(args.grid, c)
           /\ IF Occupied(args.grid) = {}
                THEN moves = << <<BoardSize \div 2, BoardSize \div 2>> >>
              ELSE IF Locality(args.grid) # {}
                THEN yielded = Locality(args.grid)
              ELSE yielded = {c \in Coords : is_empty(args.grid, c)}

\* The generator was applied to a grid on which an empty cell lies within
\* distance 2 of two stones and another empty cell lies farther than 2 from
\* every stone.
C12_Witness ==
    /\ rets # Nothing
    /\ rets[1].fn = "_candidate_moves"
    /\ \E c \in Coords :
          /\ is_empty(args.grid, c)
          /\ Cardinality({o \in Occupied(args.grid) : Chebyshev(c, o) <= 2}) >= 2
    /\ \E c \in Coords : is_empty(args.grid, c) /\ c \notin Locality(args.grid)
    /\ Len(rets[1].moves) = Cardinality(Locality(args.grid))

(***************************************************************************)
(* C13                                                                     *)
(***************************************************************************)
\* C13: the static evaluation of a grid for Black is the negative of its
\* evaluation for White, and evaluating the same grid for the same player
\* again gives the same value.
C13_EvaluationAntisymmetric ==
    (rets # Nothing /\ rets[1].fn = "_static_evaluation") =>
        /\ rets[1].value[BLACK] = -rets[1].value[WHITE]
        /\ rets[1].again = rets[1].value[BLACK]

\* A grid holding stones of both colours was evaluated, and not to zero.
C13_Witness ==
    /\ rets # Nothing
    /\ rets[1].fn = "_static_evaluation"
    /\ \E b, w \in Coords : Get(args.grid, b) = BLACK_STONE /\ Get(args.grid, w) = WHITE_STONE
    /\ rets[1].value[BLACK] # 0

(***************************************************************************)
(* C14                                                                     *)
(***************************************************************************)
\* The first stones of the maximal runs of at least WIN_SEQUENCE_LENGTH
\* stones, with their direction.
LongRuns(grid, stone) ==
    {cd \in Coords \X (1..Len(_DIRECTIONS)) :
        /\ Get(grid, Along(cd[1], _DIRECTIONS[cd[2]], -1)) # stone
        /\ \A k \in 0..(WIN_SEQUENCE_LENGTH - 1) :
               Get(grid, Along(cd[1], _DIRECTIONS[cd[2]], k)) = stone}

\* C14: a maximal run of at least five stones of a player in one of the
\* four directions is scored once, at its first stone in that direction,
\* with 1,000,000, and at no other stone of the run, so the player's line
\* score is at least 1,000,000.
C14_FiveScoredOnce ==
    (rets # Nothing /\ rets[1].fn = "_static_evaluation") =>
        \A p \in Players :
            \A cd \in LongRuns(args.grid, Stone(p)) :
                /\ RunScore(args.grid, cd[1], Stone(p), _DIRECTIONS[cd[2]]) = 1000000
                /\ \A k \in 1..(BoardSize - 1) :
                       (\A j \in 1..k :
                            Get(args.grid, Along(cd[1], _DIRECTIONS[cd[2]], j)) = Stone(p))
                       => RunScore(args.grid, Along(cd[1], _DIRECTIONS[cd[2]], k),
                                   Stone(p), _DIRECTIONS[cd[2]]) = 0
                /\ rets[1].score[p] >= 1000000

\* A grid with a run of six black stones was evaluated.
C14_Witness ==
    /\ rets # Nothing
    /\ rets[1].fn = "_static_evaluation"
    /\ \E cd \in LongRuns(args.grid, BLACK_STONE) :
           Get(args.grid, Along(cd[1], _DIRECTIONS[cd[2]], WIN_SEQUENCE_LENGTH)) = BLACK_STONE
    /\ rets[1].score[BLACK] >= 1000000

(***************************************************************************)
(* C15                                                                     *)
(***************************************************************************)
\* C15: advance_after_move(P) returns a snapshot in which P's entries are
\* unchanged, each entry of P's opponent that was above 0 is smaller by 1
\* and each that was 0 is 0, and the round counter is larger by 1; the
\* snapshot it was called on is unaffected.
C15_AdvanceAfterMove ==
    (rets # Nothing /\ rets[1].fn = "advance_after_move") =>
        LET before == rets[1].before
            after == rets[1].result
            own == PlayerIndex(rets[1].player)
            other == PlayerIndex(Opponent(rets[1].player))
        IN /\ after.values[own] = before.values[own]
           /\ Len(after.values[other]) = Len(before.values[other])
           /\ \A k \in 1..Len(before.values[other]) :
                  /\ before.values[other][k] > 0
                         => after.values[other][k] = before.values[other][k] - 1
                  /\ before.values[other][k] = 0 => after.values[other][k] = 0
                  /\ after.values[other][k] >= 0
                  /\ after.values[other][k] <= before.values[other][k]
           /\ after.round_number = before.round_number + 1
           /\ after.skill_names = before.skill_names
           /\ rets[1].self = before

\* advance_after_move was applied to a snapshot in which the opponent had
\* an entry at 0 and an entry above 0.
C15_Witness ==
    /\ rets # Nothing
    /\ rets[1].fn = "advance_after_move"
    /\ \E j, k \in 1..Len(rets[1].before.skill_names) :
          /\ rets[1].before.values[PlayerIndex(Opponent(rets[1].player))][j] = 0
          /\ rets[1].before.values[PlayerIndex(Opponent(rets[1].player))][k] > 0
          /\ rets[1].result.values[PlayerIndex(Opponent(rets[1].player))][k]
                 = rets[1].before.values[PlayerIndex(Opponent(rets[1].player))][k] - 1

(***************************************************************************)
(* C16                                                                     *)
(***************************************************************************)
\* C16: with_skill_triggered(P, S, v) returns a snapshot whose entry (P, S)
\* is v and whose every other entry, skill order and round counter are
\* those of the original; the original is unaffected.
C16_WithSkillTriggered ==
    (rets # Nothing /\ rets[1].fn = "with_skill_triggered") =>
        LET before == rets[1].before
            after == rets[1].result
        IN /\ after.skill_names = before.skill_names
           /\ after.round_number = before.round_number
           /\ Len(after.values) = Len(before.values)
           /\ \A p \in Players :
                  /\ Len(after.values[PlayerIndex(p)]) = Len(before.values[PlayerIndex(p)])
                  /\ \A k \in 1..Len(before.skill_names) :
                         after.values[PlayerIndex(p)][k] =
                             IF p = rets[1].player /\ before.skill_names[k] = rets[1].skill_name
                               THEN rets[1].cooldown_turns
                               ELSE before.values[PlayerIndex(p)][k]
           /\ rets[1].self = before

\* with_skill_triggered changed an entry.
C16_Witness ==
    /\ rets # Nothing
    /\ rets[1].fn = "with_skill_triggered"
    /\ rets[1].result # rets[1].before
    /\ rets[1].result.values[PlayerIndex(Opponent(rets[1].player))]
           = rets[1].before.values[PlayerIndex(Opponent(rets[1].player))]

(***************************************************************************)
(* C17                                                                     *)
(***************************************************************************)
\* The scores recorded for a first action, and all the scores recorded.
ScoresOf(action) == {recorded[i].score : i \in {j \in 1..Len(recorded) : recorded[j].action = action}}
RecordedScores == {recorded[i].score : i \in 1..Len(recorded)}
RecordedActions == {recorded[i].action : i \in 1..Len(recorded)}
Highest(scores) == CHOOSE s \in scores : \A t \in scores : t <= s

\* The first actions whose best recorded score ties the overall best.
TyingActions ==
    {a \in RecordedActions : IsClose(Highest(ScoresOf(a)), Highest(RecordedScores))}

\* How many times an action stands in the pool the final draw is made from.
Occurrences(action) ==
    Cardinality({i \in 1..Len(best_actions) : best_actions[i] = action})

\* C17: when the search ends with at least one recorded score, the pool the
\* final action is drawn from holds each first action whose best recorded
\* score ties the overall best exactly once, and no other action.
C17_AsStated ==
    (pc = "returned" /\ recorded # <<>>) =>
        /\ RetainedActions = TyingActions
        /\ \A a \in RetainedActions : Occurrences(a) = 1

(***************************************************************************)
(* C18                                                                     *)
(***************************************************************************)
\* The targets of the Stone Storm root children, in order.
StormTargets ==
    LET storms == SelectSeq(skill_children, LAMBDA c : c.action.skill = STONE_STORM)
    IN [i \in 1..Len(storms) |-> storms[i].action.skill_target]

\* The cells of the live grid that hold a stone of the root player's opponent.
OpponentStones ==
    {coord \in Coords :
        Get(entry_game[1].grid, coord) = Stone(Opponent(entry_game[1].current_player))}

\* The static evaluation, for the root player, of the live grid without the
\* stone at target.
PostRemovalScore(target) ==
    _static_evaluation(SetCell(entry_game[1].grid, target, EMPTY_CELL),
                       entry_game[1].current_player)

\* C18: the Stone Storm root children are at most 3, their targets are
\* pairwise distinct and each holds an opponent stone in the live grid, no
\* opponent stone left out scores strictly higher after its removal than one
\* that is kept, and there is none when the opponent has no stone.
C18_StoneStormBestTargets ==
    InCall =>
        LET kept == {StormTargets[i] : i \in 1..Len(StormTargets)}
        IN /\ Len(StormTargets) <= 3
           /\ Cardinality(kept) = Len(StormTargets)
           /\ kept \subseteq OpponentStones
           /\ \A target \in kept : \A out \in OpponentStones \ kept :
                  PostRemovalScore(out) <= PostRemovalScore(target)
           /\ OpponentStones = {} => StormTargets = <<>>

\* Three Stone Storm children were kept and an opponent stone was left out
\* whose removal scores strictly lower than a kept one's.
C18_Witness ==
    /\ pc = "loop"
    /\ Len(StormTargets) = 3
    /\ \E out \in OpponentStones \ {StormTargets[i] : i \in 1..3} :
           PostRemovalScore(out) < PostRemovalScore(StormTargets[3])

(***************************************************************************)
(* C19                                                                     *)
(***************************************************************************)
\* The sign-corrected value of a terminal node's evaluation.
SignCorrected(evaluation, g_cost) ==
    IF (g_cost % 2 = 1 /\ evaluation < 0) \/ (g_cost % 2 = 0 /\ evaluation > 0)
      THEN -evaluation
      ELSE evaluation

\* C19: every score recorded for a terminal node is the sign-corrected value
\* of its evaluation, and every score recorded for a non-terminal node is
\* its raw evaluation.
C19_AsStated ==
    \A i \in 1..Len(recorded) :
        recorded[i].score =
            IF recorded[i].is_terminal
              THEN SignCorrected(recorded[i].evaluation, recorded[i].g_cost)
              ELSE recorded[i].evaluation

(***************************************************************************)
(* C20                                                                     *)
(***************************************************************************)
\* The depth the call was asked for, a depth below 1 counting as 1.
DepthLimit == IF depth_arg < 1 THEN 1 ELSE depth_arg

\* Every node on the frontier has a g_cost from 1 to the depth limit.
FrontierWithinDepth ==
    \A i \in 1..Len(open_nodes) :
        open_nodes[i].g_cost >= 1 /\ open_nodes[i].g_cost <= DepthLimit

\* A step of the loop that pushes nodes popped a node that is not terminal
\* and whose g_cost is below the depth limit.
PushesOnlyBelowDepth ==
    (pc = "loop" /\ pushes' > pushes) =>
        /\ ~heappop(open_nodes).item.is_terminal
        /\ heappop(open_nodes).item.g_cost < DepthLimit

\* C20: every node pushed on the frontier has 1 <= g_cost <= depth, a depth
\* below 1 counting as 1, and a popped node gets children only if it is not
\* terminal and its g_cost is below depth.
C20_DepthBounded == [](InCall => FrontierWithinDepth) /\ [][PushesOnlyBelowDepth]_vars

\* A node at the depth limit, below the root's children, is on the frontier
\* together with a terminal node.
C20_Witness ==
    /\ pc = "loop"
    /\ depth_arg >= 2
    /\ \E i, j \in 1..Len(open_nodes) :
          /\ open_nodes[i].g_cost = depth_arg
          /\ open_nodes[j].is_terminal

(***************************************************************************)
(* C23                                                                     *)
(***************************************************************************)
\* The first stones of the maximal runs of exactly two stones, with their
\* direction.
PairRuns(grid, stone) ==
    {cd \in Coords \X (1..Len(_DIRECTIONS)) :
        /\ Get(grid, Along(cd[1], _DIRECTIONS[cd[2]], -1)) # stone
        /\ Get(grid, cd[1]) = stone
        /\ Get(grid, Along(cd[1], _DIRECTIONS[cd[2]], 1)) = stone
        /\ Get(grid, Along(cd[1], _DIRECTIONS[cd[2]], 2)) # stone}

\* Both cells next to a run of two are empty cells of the board.
PairOpen(grid, cd) ==
    /\ is_empty(grid, Along(cd[1], _DIRECTIONS[cd[2]], -1))
    /\ is_empty(grid, Along(cd[1], _DIRECTIONS[cd[2]], 2))

\* C23: with the win length 5, a maximal run of exactly two stones of one
\* colour contributes 30 to its owner's line score when both of its ends
\* are open and 10 otherwise.
C23_AsStated ==
    (rets # Nothing /\ rets[1].fn = "_static_evaluation") =>
        \A p \in Players :
            \A cd \in PairRuns(args.grid, Stone(p)) :
                RunScore(args.grid, cd[1], Stone(p), _DIRECTIONS[cd[2]]) =
                    IF PairOpen(args.grid, cd) THEN 30 ELSE 10

(***************************************************************************)
(* C30                                                                     *)
(***************************************************************************)
\* C30: for every grid with at least one stone and at least one empty cell
\* the locality scan of the move generator yields a coordinate, so that the
\* generator yields what the scan yielded and the full-board scan adds
\* nothing; the generator yields nothing only on a full board.
C30_LocalityNeverEmpty ==
    (rets # Nothing /\ rets[1].fn = "_candidate_moves") =>
        /\ (Occupied(args.grid) # {} /\ \E c \in Coords : is_empty(args.grid, c))
               => (rets[1].scan # <<>> /\ rets[1].moves = rets[1].scan)
        /\ (rets[1].moves = <<>>) = (\A c \in Coords : ~is_empty(args.grid, c))

\* The generator was applied to a grid whose only empty cells are one or
\* two cells, and yielded them.
C30_Witness ==
    /\ rets # Nothing
    /\ rets[1].fn = "_candidate_moves"
    /\ Cardinality({c \in Coords : is_empty(args.grid, c)}) \in {1, 2}
    /\ rets[1].scan # <<>>
    /\ Len(rets[1].scan) = Cardinality({c \in Coords : is_empty(args.grid, c)})

(***************************************************************************)
(* C21                                                                     *)
(***************************************************************************)
\* The nodes a step has added to the frontier.
PushedNodes ==
    {open_nodes'[i] : i \in 1..Len(open_nodes')} \ {open_nodes[i] : i \in 1..Len(open_nodes)}

\* child is parent after one placement by parent's player_to_move on a cell
\* that is empty in parent's grid.
IsPlacementChild(parent, child) ==
    /\ child.g_cost = parent.g_cost + 1
    /\ child.player_to_move = Opponent(parent.player_to_move)
    /\ Cardinality({c \in Coords : Get(child.grid, c) # Get(parent.grid, c)}) = 1
    /\ \A c \in Coords :
           Get(child.grid, c) # Get(parent.grid, c) =>
               /\ is_empty(parent.grid, c)
               /\ Get(child.grid, c) = Stone(parent.player_to_move)

\* A step of the loop changes nothing of the live game, adds only placement
\* children of the node it popped, and does not raise.
ExpandsByPlacement ==
    pc = "loop" =>
        /\ game' = game
        /\ pc' # "raised"
        /\ pushes' > pushes =>
               /\ Cardinality(PushedNodes) = pushes' - pushes
               /\ \A child \in PushedNodes :
                      IsPlacementChild(heappop(open_nodes).item, child)

\* C21: below the root every child is produced by a placement only: its
\* grid is the parent's plus one stone of the parent's player_to_move on a
\* cell empty in the parent's grid, its player_to_move is the other player
\* and its g_cost the parent's plus 1; no skill is simulated below the root
\* and expansion never raises.
C21_ChildrenByPlacement == [][ExpandsByPlacement]_vars

\* The frontier holds a node three plies deep below a skill root child.
C21_Witness ==
    /\ pc = "loop"
    /\ \E i \in 1..Len(open_nodes) :
          /\ open_nodes[i].g_cost = 3
          /\ open_nodes[i].first_action.skill # None
          /\ Cardinality({c \in Coords :
                 Get(open_nodes[i].grid, c) # Get(entry_game[1].grid, c)}) >= 2

(***************************************************************************)
(* C22                                                                     *)
(***************************************************************************)
\* The root snapshot of the call, and the row of the side to move in a
\* snapshot.
RootSnapshot == from_game(entry_game[1], _skill_order(entry_game[1]))
RootRow(state) == state.values[PlayerIndex(entry_game[1].current_player)]

\* The skill children whose simulation skipped the opponent's turn, so that
\* the next turn of the side to move has already begun in the simulated game.
TurnCameBack(child) == child.action.skill = STILL_WATERS

\* C22 (as stated): the snapshot of every root skill child has the entry of
\* the side to move for the simulated skill at the skill's configured
\* cooldown, and the other entries of the side to move as in the root
\* snapshot.
C22_AsStated ==
    (pc = "loop") =>
        \A i \in 1..Len(skill_children) :
            \A k \in 1..Len(RootSnapshot.skill_names) :
                RootRow(skill_children[i].state)[k] =
                    IF RootSnapshot.skill_names[k] = skill_children[i].action.skill
                      THEN CooldownTurns(skill_children[i].action.skill)
                      ELSE RootRow(RootSnapshot)[k]

\* C22 (amended): that holds for the Stone Storm and Seize and Move
\* children; in the Still Waters child, where the opponent's turn is skipped
\* and the next turn of the side to move has begun, the entry of Still
\* Waters is its configured cooldown less 1 and every other entry of the
\* side to move is the root's less 1, floored at 0.
C22_SkillChildCooldown ==
    (pc = "loop") =>
        \A i \in 1..Len(skill_children) :
            \A k \in 1..Len(RootSnapshot.skill_names) :
                RootRow(skill_children[i].state)[k] =
                    IF TurnCameBack(skill_children[i])
                      THEN IF RootSnapshot.skill_names[k] = skill_children[i].action.skill
                             THEN CooldownTurns(skill_children[i].action.skill) - 1
                             ELSE Max(0, RootRow(RootSnapshot)[k] - 1)
                    ELSE IF RootSnapshot.skill_names[k] = skill_children[i].action.skill
                      THEN CooldownTurns(skill_children[i].action.skill)
                      ELSE RootRow(RootSnapshot)[k]

\* The root has a Stone Storm child, a Still Waters child and a Seize and
\* Move child.
C22_Witness ==
    /\ pc = "loop"
    /\ \A name \in {STONE_STORM, STILL_WATERS, SEIZE_AND_MOVE} :
           \E i \in 1..Len(skill_children) : skill_children[i].action.skill = name

(***************************************************************************)
(* C27                                                                     *)
(***************************************************************************)
\* grid holds a run of at least WIN_SEQUENCE_LENGTH stones of player.
HasWinningLine(grid, player) == LongRuns(grid, Stone(player)) # {}

\* C27: every score recorded for a terminal node whose grid holds a winning
\* line is positive when the line is the root player's and negative when it
\* is the opponent's.
C27_AsStated ==
    \A i \in 1..Len(recorded) :
        recorded[i].is_terminal =>
            /\ HasWinningLine(recorded[i].grid, current_player) => recorded[i].score > 0
            /\ HasWinningLine(recorded[i].grid, Opponent(current_player))
                   => recorded[i].score < 0

(***************************************************************************)
(* The live game: what the last operation did.                             *)
(***************************************************************************)
LastOp == rets[1]
Did(fn) == rets # Nothing /\ LastOp.fn = fn /\ LastOp.ok
Rejected(fn) == rets # Nothing /\ LastOp.fn = fn /\ ~LastOp.ok
\* The player who made the last operation.
Mover == LastOp.before.current_player

\* C24: a legal placement by P that does not end the game takes the live
\* engine's cooldowns and stone count from from_game(before) to
\* advance_after_move(P) of it: the opponent's entries one lower, floored at
\* zero, P's entries as they were, the round counter one higher.
C24_TrackerMirrorsPlacement ==
    (Did("place_stone") /\ ~is_finished(game))
        => from_game(game, ALL_SKILLS)
             = advance_after_move(from_game(LastOp.before, ALL_SKILLS), Mover)

\* A placement went through, the game goes on, and the opponent had a skill
\* cooling down and a skill ready.
C24_Witness ==
    /\ Did("place_stone")
    /\ ~is_finished(game)
    /\ \E n \in SkillNames : LastOp.before.skill_cooldowns[Opponent(Mover)][n] > 0
    /\ \E n \in SkillNames : LastOp.before.skill_cooldowns[Opponent(Mover)][n] = 0

\* The root children choose_action builds for the skills of game's side to
\* move, the random source being in state r.
RootSkillChildren(g, r) ==
    RootSkillNodes(_root_skill_simulations(g, from_game(g, _skill_order(g)), r).results,
                   g.current_player)

StillWatersChildren(g, r) ==
    SelectSeq(RootSkillChildren(g, r), LAMBDA node : node.first_action.skill = STILL_WATERS)

\* The last operation was a placement made right after the opponent's turn
\* was skipped.
PlacedAfterSkip ==
    Did("place_stone") /\ LastOp.before.skipped_last_player = Opponent(Mover)

\* C25: once P has used Still Waters the opponent's next turn is skipped,
\* and only that one: P is to move at once and no skip is pending; after P's
\* next placement that does not end the game the opponent is to move and no
\* skip is pending; and the Still Waters root child the search builds for
\* that game has P as its player to move.
C25_StillWatersSkipsOnce ==
    /\ (Did("use_skill") /\ LastOp.skill_name = STILL_WATERS)
          => /\ game.current_player = Mover
             /\ game.skip_next_player = None
             /\ game.skipped_last_player = Opponent(Mover)
             /\ \A r \in Seeds :
                   /\ StillWatersChildren(LastOp.before, r) # <<>>
                   /\ \A i \in 1..Len(StillWatersChildren(LastOp.before, r)) :
                         StillWatersChildren(LastOp.before, r)[i].player_to_move = Mover
    /\ (PlacedAfterSkip /\ ~is_finished(game))
          => /\ game.current_player = Opponent(Mover)
             /\ game.skip_next_player = None
             /\ game.skipped_last_player = None

\* P has placed a stone right after Still Waters skipped the opponent, and
\* the game goes on.
C25_Witness == PlacedAfterSkip /\ ~is_finished(game)

\* The operation the step leads to.
NextOp == rets'[1]
UsesNow(p, n) ==
    NextOp.ok /\ NextOp.fn = "use_skill" /\ NextOp.skill_name = n /\ p = game.current_player

\* The cooldown of skill n for player p after the step: what a successful
\* use sets it to, or else what it was, less 1 floored at 0 when a turn of p
\* begins in the step.
CooldownAfterStep(p, n) ==
    LET base == IF UsesNow(p, n) THEN CooldownTurns(n) ELSE game.skill_cooldowns[p][n]
    IN IF NextOp.ok /\ NextOp.fn \in {"place_stone", "use_skill"} /\ TurnBegins(p, game')
         THEN Max(0, base - 1)
         ELSE base

CooldownStep ==
    /\ (NextOp.fn = "use_skill" /\ NextOp.skill_name \in SkillNames
           /\ game.skill_cooldowns[game.current_player][NextOp.skill_name] > 0)
          => ~NextOp.ok /\ game' = game
    /\ NextOp.fn # "reset"
          => \A p \in Players, n \in SkillNames :
                game'.skill_cooldowns[p][n] = CooldownAfterStep(p, n)
    /\ \A p \in Players, n \in SkillNames :
          /\ args'.begun[p][n] >= 0
                => game'.skill_cooldowns[p][n]
                     = Max(0, CooldownTurns(n) - args'.begun[p][n])
          /\ (UsesNow(p, n) /\ args.begun[p][n] >= 0)
                => args.begun[p][n] >= CooldownTurns(n)

\* C26: use_skill on a skill whose cooldown for the side to move is above
\* zero is rejected and leaves the game as it was; a cooldown changes only
\* by a successful use, which sets it, by a reset, or by going down 1,
\* floored at 0, for the player whose turn begins; so the cooldown of a
\* skill P has used is its configured cooldown less the turns of P begun
\* since, and P does not use it again before that many have begun.
C26_CooldownGatesSkill == [][CooldownStep]_vars

\* P, who used the skill and has begun a turn since, tries it again while it
\* is cooling down and is turned away.
C26_Witness ==
    /\ Rejected("use_skill")
    /\ LastOp.skill_name \in SkillNames
    /\ ~is_finished(game)
    /\ args.begun[game.current_player][LastOp.skill_name] >= 1
    /\ game.skill_cooldowns[game.current_player][LastOp.skill_name] > 0

\* C28: in every state of the live game a winner is recorded exactly when
\* the board holds a run of at least WIN_SEQUENCE_LENGTH stones, and the run
\* is of the winner's colour; the placement or the Seize and Move relocation
\* that completes such a run records its owner as the winner in the same
\* operation; and in a finished game place_stone and use_skill are rejected
\* and leave the game as it was.
C28_WinnerIffFive ==
    /\ \A p \in Players : game.winner = p <=> HasWinningLine(game.grid, p)
    /\ (Did("place_stone") /\ HasWinningLine(game.grid, Mover)) => game.winner = Mover
    /\ (Did("use_skill") /\ LastOp.skill_name = SEIZE_AND_MOVE
           /\ HasWinningLine(game.grid, Opponent(Mover)))
          => game.winner = Opponent(Mover)
    /\ (rets # Nothing /\ LastOp.fn \in {"place_stone", "use_skill"}
           /\ is_finished(LastOp.before))
          => ~LastOp.ok /\ game = LastOp.before

\* A Seize and Move has set the opponent's stone down where it completes the
\* opponent's line.
C28_Witness ==
    /\ Did("use_skill")
    /\ LastOp.skill_name = SEIZE_AND_MOVE
    /\ LastOp.before.winner = None
    /\ game.winner = Opponent(Mover)

\* Further cases of C28: a placement has completed a line; an operation on a
\* finished game has been turned away.
PlacementWon == Did("place_stone") /\ game.winner = Mover
TurnedAwayWhenFinished ==
    /\ rets # Nothing
    /\ LastOp.fn \in {"place_stone", "use_skill"}
    /\ is_finished(LastOp.before)
    /\ ~LastOp.ok

\* take_turn was called on an unfinished game in which it was the
\* opponent's turn and a cell was empty, and it is over.
TurnTaken ==
    /\ rets # Nothing
    /\ rets[1].fn = "take_turn"
    /\ ~is_finished(args.entry)
    /\ args.entry.current_player = args.player
    /\ ~is_full(args.entry.grid)

\* The game after one placement or one skill activation on g.
OneActionFrom(g) ==
    {place_stone(g, c).game : c \in {c \in Coords : place_stone(g, c).ok}}
    \cup {u.game : u \in {u \in {use_skill([g EXCEPT !.cursor = c], n, r) :
                                      c \in Coords, n \in SkillNames, r \in Seeds} : u.ok}}

\* C29: take_turn on an unfinished game with the opponent to move and an
\* empty cell on the board applies exactly one action and returns True
\* without raising, whatever the search selects; when it is not the
\* opponent's turn it returns False and leaves the game as it was.
C29_AsStated ==
    /\ TurnTaken
          => /\ ~rets[1].raised
             /\ rets[1].returned
             /\ \E g \in OneActionFrom(args.entry) :
                   [g EXCEPT !.cursor = game.cursor] = game
    /\ (rets # Nothing /\ rets[1].fn = "take_turn"
           /\ args.entry.current_player # args.player)
          => ~rets[1].returned /\ ~rets[1].raised /\ game = args.entry

====
